---- MODULE Spec2Model ----
(***************************************************************************)
(* PulseNet (src/src/renderer/App.jsx): the per-host poller (usePing), the *)
(* alert evaluator (the alert effect of SortableItem), the speed test, the *)
(* DNS tools (test, benchmark, batch, custom servers, adapter manager),    *)
(* the log and the host list, with the App state they read, as a state    *)
(* machine.                                                                *)
(*                                                                         *)
(* One action is one event handler or callback together with the React    *)
(* render it schedules and every effect that render runs.                  *)
(*                                                                         *)
(* Units: Date.now() and timer intervals are in milliseconds; round-trip   *)
(* times are in tenths of a millisecond, so that Math.round is not the     *)
(* identity; the rounds setting of the benchmark is in halves of a round,  *)
(* since the code never rounds it to an integer.                           *)
(***************************************************************************)
EXTENDS Integers, Sequences, FiniteSets, TLC

\* ------------------------------------------------------------------ bounds
MaxInFlight == 2
MaxClockSteps == 3
MaxLogLen == 2
MaxSamples == 2
MaxResults == 22
MaxIntervalInput == 6100
MaxSpeedRequests == 4

\* ------------------------------------------------------- program constants
Null == -1
TenthsPerMs == 10
StartTime == 1000000
cooldownMs == 60000
pingAlertThresholdMs == 250
MinSafeInterval == 250
FallbackInterval == 1000
HistoryWindowMs == 60000
MinHistoryPoints == 18
MaxHistoryPoints == 100
LogCap == 200
DefaultPingIntervalMs == 2000
SPEED_PHASE_DOWNLOAD_DELAY_MS == 1200
MaxOctet == 255
MaxHexGroupLen == 4
IPv4Parts == 4
IPv6Groups == 8
BatchLimit == 30
MinRounds == 1
MaxRounds == 10
DefaultRounds == 3
\* The rounds setting is a JavaScript number that the code never rounds to
\* an integer: it is held in halves of a round, so that 1.5 is 3.
HalvesPerRound == 2
Rounds(n) == n * HalvesPerRound
Percent == 100
FastestShown == 3
HTTP_PREFIX == <<"h", "t", "t", "p", ":", "/", "/">>
HTTPS_PREFIX == <<"h", "t", "t", "p", "s", ":", "/", "/">>

Min(a, b) == IF a < b THEN a ELSE b
Max(a, b) == IF a > b THEN a ELSE b
MinOf(S) == CHOOSE x \in S : \A y \in S : x <= y

\* Math.round of a non-negative value given in tenths: half rounds up.
MathRound(tenths) == (tenths + (TenthsPerMs \div 2)) \div TenthsPerMs

\* Array.prototype.slice(-n) for n > 0: the last n elements.
SliceLast(s, n) ==
    IF Len(s) <= n THEN s ELSE SubSeq(s, Len(s) - n + 1, Len(s))

\* Array.prototype.slice(0, n): the first n elements.
SliceFirst(s, n) ==
    IF Len(s) <= n THEN s ELSE SubSeq(s, 1, n)

RemoveAt(s, i) == [j \in 1..(Len(s) - 1) |-> IF j < i THEN s[j] ELSE s[j + 1]]

\* Number(intervalMs) || 1000: 0 (and NaN, here 0) falls back to 1000.
safeInterval(intervalMs) ==
    Max(MinSafeInterval, IF intervalMs = 0 THEN FallbackInterval ELSE intervalMs)

maxHistoryPoints_floorless(intervalMs) ==
    Max(MinHistoryPoints,
        Min(MaxHistoryPoints,
            (HistoryWindowMs + safeInterval(intervalMs) - 1) \div safeInterval(intervalMs)))

\* usePing.maxHistoryPoints
maxHistoryPoints(intervalMs) ==
    Max(MinHistoryPoints,
        Min(MaxHistoryPoints, HistoryWindowMs \div safeInterval(intervalMs)))

\* ------------------------------------------------------------------ strings
\* A string is the sequence of its characters, so that trimming, prefix
\* stripping, splitting and the patterns of isValidDnsServer act on what the
\* user typed.
WhiteSpace == {" ", "\t"}
Digits == <<"0", "1", "2", "3", "4", "5", "6", "7", "8", "9">>
HexLetters == {"a", "b", "c", "d", "e", "f", "A", "B", "C", "D", "E", "F"}
IsDigit(c) == \E i \in 1..Len(Digits) : Digits[i] = c
DigitValue(c) == (CHOOSE i \in 1..Len(Digits) : Digits[i] = c) - 1
IsHexDigit(c) == IsDigit(c) \/ c \in HexLetters

\* String.prototype.trim
trim(s) ==
    LET ink == {i \in 1..Len(s) : s[i] \notin WhiteSpace}
    IN  IF ink = {} THEN <<>>
        ELSE SubSeq(s, CHOOSE i \in ink : \A j \in ink : i <= j,
                       CHOOSE i \in ink : \A j \in ink : i >= j)

\* The letters of the scheme, as the i flag of the pattern reads them.
ToLower(c) ==
    CASE c = "H" -> "h" [] c = "T" -> "t" [] c = "P" -> "p" [] c = "S" -> "s"
      [] OTHER -> c

StartsWith(s, prefix) ==
    /\ Len(s) >= Len(prefix)
    /\ \A i \in 1..Len(prefix) : ToLower(s[i]) = prefix[i]

DropFirst(s, n) == SubSeq(s, n + 1, Len(s))

\* .replace(/^https?:\/\//i, '')
stripScheme(s) ==
    IF StartsWith(s, HTTPS_PREFIX) THEN DropFirst(s, Len(HTTPS_PREFIX))
    ELSE IF StartsWith(s, HTTP_PREFIX) THEN DropFirst(s, Len(HTTP_PREFIX))
    ELSE s

\* .split(c)[0]: what precedes the first c.
FirstPart(s, c) ==
    LET at == {i \in 1..Len(s) : s[i] = c}
    IN  IF at = {} THEN s
        ELSE SubSeq(s, 1, (CHOOSE i \in at : \A j \in at : i <= j) - 1)

\* The parts of s between the occurrences of c, in order (String.split).
RECURSIVE Split(_, _)
Split(s, c) ==
    IF \A i \in 1..Len(s) : s[i] # c THEN <<s>>
    ELSE <<FirstPart(s, c)>> \o Split(DropFirst(s, Len(FirstPart(s, c)) + 1), c)

sanitizeDomain(input) ==
    FirstPart(FirstPart(FirstPart(stripScheme(trim(input)), "/"), "?"), "#")

\* normalizeDnsServer
normalizeDnsServer(value) == trim(value)

\* (25[0-5]|2[0-4]\d|1\d{2}|[1-9]?\d): a decimal octet without leading zero.
IsOctet(part) ==
    /\ Len(part) \in 1..3
    /\ \A i \in 1..Len(part) : IsDigit(part[i])
    /\ Len(part) > 1 => part[1] # "0"
    /\ Len(part) = 3 =>
          DigitValue(part[1]) * 100 + DigitValue(part[2]) * 10 + DigitValue(part[3])
            <= MaxOctet

\* [0-9a-fA-F]{1,4}
IsHexGroup(part) ==
    /\ Len(part) \in 1..MaxHexGroupLen
    /\ \A i \in 1..Len(part) : IsHexDigit(part[i])

\* The pattern ipv4 of isValidDnsServer.
ipv4(s) ==
    LET parts == Split(s, ".")
    IN  Len(parts) = IPv4Parts /\ \A i \in 1..Len(parts) : IsOctet(parts[i])

\* The pattern ipv6 of isValidDnsServer: ([0-9a-fA-F]{1,4}:){1,7}[0-9a-fA-F]{1,4}
ipv6(s) ==
    LET parts == Split(s, ":")
    IN  /\ Len(parts) \in 2..IPv6Groups
        /\ \A i \in 1..Len(parts) : IsHexGroup(parts[i])

isValidDnsServer(value) ==
    LET normalized == normalizeDnsServer(value)
    IN  normalized # <<>> /\ (ipv4(normalized) \/ ipv6(normalized))

\* ------------------------------------------------------------------- hosts
\* useHosts: the built-in defaults; a default host has no pinned or paused
\* field until one is toggled, and Boolean(undefined) is false.
GoogleDns ==
    [type |-> "default", id |-> Null, label |-> "Google DNS", host |-> "8.8.8.8",
     pinned |-> FALSE, paused |-> FALSE]
CloudflareDns ==
    [type |-> "default", id |-> Null, label |-> "Cloudflare DNS", host |-> "1.1.1.1",
     pinned |-> FALSE, paused |-> FALSE]
\* The host the add form creates at the start time.
Router ==
    [type |-> "custom", id |-> StartTime, label |-> "Router", host |-> "192.168.1.1",
     pinned |-> FALSE, paused |-> FALSE]
HostUniverse == {GoogleDns, CloudflareDns, Router}

getHostKey(h) ==
    IF h.type = "custom" THEN <<"custom", h.id>> ELSE <<"default", h.label, h.host>>

HostKeys == {getHostKey(h) : h \in HostUniverse}

\* What localStorage.getItem('allHosts') holds when it is not the JSON of a
\* host list: nothing, or a text JSON.parse rejects.
NotStored == <<[type |-> "null", id |-> Null, label |-> "", host |-> "",
                pinned |-> FALSE, paused |-> FALSE]>>
Unparseable == <<[type |-> "SyntaxError", id |-> Null, label |-> "", host |-> "",
                  pinned |-> FALSE, paused |-> FALSE]>>

\* The default hosts of useHosts (the first two of its four).
defaultHosts == <<GoogleDns, CloudflareDns>>

\* The effect of useHosts: the host list it sets and what localStorage holds
\* after it.
loadHosts(stored) ==
    IF stored = NotStored THEN [hosts |-> defaultHosts, stored |-> defaultHosts]
    ELSE IF stored = Unparseable THEN [hosts |-> defaultHosts, stored |-> stored]
    ELSE [hosts |-> stored, stored |-> stored]

\* The host record of key k in list hs (keys are unique in the lists modelled).
HostOf(hs, k) == hs[CHOOSE i \in 1..Len(hs) : getHostKey(hs[i]) = k]
InList(hs, k) == \E i \in 1..Len(hs) : getHostKey(hs[i]) = k
KeysInOrder(hs) == [i \in 1..Len(hs) |-> getHostKey(hs[i])]

\* ------------------------------------------------------------- status texts
\* App.statusTexts: one table per locale.
statusTexts(persian) ==
    IF persian
    THEN [needAdmin |-> "fa:needAdmin", error |-> "fa:error",
          noResponse |-> "fa:noResponse", ipcError |-> "fa:ipcError",
          paused |-> "fa:paused"]
    ELSE [needAdmin |-> "Need Admin", error |-> "Error",
          noResponse |-> "No Response", ipcError |-> "IPC Error",
          paused |-> "Paused"]

\* A status is a text of the table (ms = Null) or `${Math.round(time)}ms`.
TextStatus(t) == [text |-> t, ms |-> Null]
MsStatus(tenths) == [text |-> "ms", ms |-> MathRound(tenths)]

\* usePing: the initial pingData.
InitialPingData ==
    [status |-> TextStatus("--"), hasError |-> FALSE, timeMs |-> Null,
     errorKind |-> "none"]

\* ---------------------------------------------------------------- variables
VARIABLES
    currentPage,          \* App.currentPage
    pingIntervalMs,       \* App.pingIntervalMs
    optimizationEnabled,  \* App.optimizationEnabled
    isPersian,            \* App.isPersian
    isEditMode,           \* App.isEditMode
    allHosts,             \* useHosts.allHosts: sequence of host records
    logEntries,           \* App.logEntries, newest first
    localStorage,         \* the persisted keys this model writes
    now,                  \* Date.now()
    items,                \* per host key: the state of its SortableItem (below)
    lastEvent,            \* observer: the action that led to this state
    observed,             \* observer: per host key, the results counted (below)
    capIn,                \* maxHistoryPoints: the interval it is applied to
    capOut,               \* maxHistoryPoints: its result, Null before it is applied
    speed,                \* the speed test of App (below)
    dns                   \* the DNS page of App (below)

\* items[k] is a record:
\*   mounted       the SortableItem of host k is mounted
\*   pingData      usePing.pingData
\*   history       usePing.history
\*   lastAlertRef  SortableItem.lastAlertRef.current
\*   timers        the live setInterval timers of its poll effect
\*   inflight      its ping_host invocations not yet settled, in issue order
\*   emitted       the entries its alert effect handed to onLog in the last step
\* observed[k] is a record:
\*   issued        probes issued by the current run of the poll effect of k
\*   since         Date.now() when the current run of the poll effect started
\*   settled       invocations of host k settled since the first render
\*   steady        the poll effect of host k has run once only
\*   fixed         the interval has not changed since the first render
\*   last          Date.now() when the latest probe of host k was issued
\*   numbers       for each probe of host k in flight, its number in the
\*                 order of issue
\* speed is a record:
\*   id            speedRequestRef.current.id
\*   started       App.speedStarted
\*   loading       App.speedLoading
\*   metrics       App.speedMetrics, Null or the result of a run
\*   phase         App.speedPhase
\*   timers        speedPhaseTimersRef.current: the pending phase timeouts
\*   inflight      the run_speed_test invocations not yet settled
\* dns is a record of the App state of the same names (dnsDomain, dnsResults,
\* dnsLoading, dnsError, dnsBenchmarkLoading, dnsBenchmarkStats,
\* dnsBenchmarkRounds, customDnsInput, customDnsServers, batchDomainsInput
\* as its lines, batchResults, batchLoading) and of
\*   ops           the calls of handleDnsTest, handleDnsBenchmark and
\*                 handleBatchDomains that await runDnsCheck, each a record:
\*     kind        "test", "benchmark" or "batch"
\*     sanitized   the domain of a test or benchmark
\*     persian     the locale of the texts the call closed over
\*     rounds, i   the rounds of a benchmark and the index of the current one
\*     statsMap    the statsMap of a benchmark, in insertion order
\*     domains     the domains of a batch
\*     results     the results of a batch so far
\*     pending     the runDnsCheck awaited: the domain it sanitized and
\*                 whether it invoked test_dns_servers_with_custom
\*     checked     the domains the call has passed to invoke, in order
\*     responses   the results of the earlier rounds of a benchmark
\* and of the DNS manager (dnsToolMode, dnsAdapters, dnsSelectedAdapter,
\* dnsPrimaryInput, dnsSecondaryInput, dnsManagerLoading, dnsManagerStatus)
\* with
\*   system        the invocations of list_dns_adapters and set_adapter_dns
\*                 not yet settled, in order; `finishes` marks the
\*                 loadDnsAdapters that handleApplySystemDns awaits

appVars == <<currentPage, pingIntervalMs, optimizationEnabled, isPersian, isEditMode,
             allHosts, logEntries, localStorage, now>>
capVars == <<capIn, capOut>>
obsVars == <<lastEvent, observed>>
vars == <<appVars, items, obsVars, capVars, speed, dns>>

\* --------------------------------------------------- the App state as a value
\* What a render of the ping page reads from App.
App(page, interval, opt, persian, edit, hosts) ==
    [page |-> page, interval |-> interval, opt |-> opt, persian |-> persian,
     edit |-> edit, hosts |-> hosts]
Cur == App(currentPage, pingIntervalMs, optimizationEnabled, isPersian, isEditMode,
           allHosts)

\* The ping page renders one SortableItem per host of the list.
IsRendered(A, k) == A.page = "ping" /\ InList(A.hosts, k)

\* SortableItem props and the arguments it passes to usePing.
isPaused(A, k) == HostOf(A.hosts, k).paused
\* (a card of the list is rendered with editing = false)
shouldPollPing_ignoresPause(A, k) == ~A.edit
shouldPollPing(A, k) == ~isPaused(A, k) /\ ~A.edit
trackHistory(A) == ~A.opt

\* The dependency list of the poll effect of usePing.
PollDeps(A, k) ==
    <<HostOf(A.hosts, k).host, statusTexts(A.persian), A.interval,
      maxHistoryPoints(A.interval), shouldPollPing(A, k), isPaused(A, k),
      trackHistory(A)>>

\* The dependency list of the alert effect of SortableItem (onLog and the
\* threshold never change).
AlertDeps(A, k, pd) ==
    <<A.edit, pd.hasError, pd.errorKind, pd.timeMs, HostOf(A.hosts, k).label,
      HostOf(A.hosts, k).host, pd.status, A.persian>>

\* ------------------------------------------------------------ usePing pieces
\* pushHistory of the effect whose closure holds track and cap.
pushHistory_dropsNull(hist, value, track, cap) ==
    IF ~track \/ value = Null THEN hist
    ELSE LET next == Append(hist, value)
         IN  IF Len(next) > cap THEN SubSeq(next, Len(next) - cap + 1, Len(next))
             ELSE next
pushHistory(hist, value, track, cap) ==
    IF ~track THEN hist
    ELSE LET next == Append(hist, value)
         IN  IF Len(next) > cap THEN SubSeq(next, Len(next) - cap + 1, Len(next))
             ELSE next

\* The history trim effect: prev.slice(-maxHistoryPoints).
trimHistory_keepsOldest(hist, cap) == SliceFirst(hist, cap)
trimHistory(hist, cap) == SliceLast(hist, cap)

\* result.error.includes('permission'): an error text is a sequence of words.
includesPermission(err) == \E i \in 1..Len(err) : err[i] = "permission"

\* ping() without its catch block: a rejection leaves pingData as the
\* status "--" of a card that never got a result.
Classify_uncaught(o, texts) ==
    IF o.rejected THEN <<Null, InitialPingData>>
    ELSE IF o.error # <<>> THEN
        IF includesPermission(o.error) THEN
            <<Null, [status |-> TextStatus(texts.needAdmin), hasError |-> TRUE,
                     timeMs |-> Null, errorKind |-> "permission"]>>
        ELSE
            <<Null, [status |-> TextStatus(texts.error), hasError |-> TRUE,
                     timeMs |-> Null, errorKind |-> "error"]>>
    ELSE IF ~o.alive THEN
        <<Null, [status |-> TextStatus(texts.noResponse), hasError |-> TRUE,
                 timeMs |-> Null, errorKind |-> "no-response"]>>
    ELSE
        <<o.time, [status |-> MsStatus(o.time), hasError |-> FALSE,
                   timeMs |-> o.time, errorKind |-> "none"]>>

\* What ping() stores for the outcome o of invoke('ping_host') under the
\* status texts of its closure: <<sample pushed to the history, pingData>>.
Classify(o, texts) ==
    IF o.rejected THEN
        <<Null, [status |-> TextStatus(texts.ipcError), hasError |-> TRUE,
                 timeMs |-> Null, errorKind |-> "ipc"]>>
    ELSE IF o.error # <<>> THEN
        IF includesPermission(o.error) THEN
            <<Null, [status |-> TextStatus(texts.needAdmin), hasError |-> TRUE,
                     timeMs |-> Null, errorKind |-> "permission"]>>
        ELSE
            <<Null, [status |-> TextStatus(texts.error), hasError |-> TRUE,
                     timeMs |-> Null, errorKind |-> "error"]>>
    ELSE IF ~o.alive THEN
        <<Null, [status |-> TextStatus(texts.noResponse), hasError |-> TRUE,
                 timeMs |-> Null, errorKind |-> "no-response"]>>
    ELSE
        <<o.time, [status |-> MsStatus(o.time), hasError |-> FALSE,
                   timeMs |-> o.time, errorKind |-> "none"]>>

\* The paused branch of the poll effect: setPingData(prev => ...).
PausedData(prev, texts) ==
    [prev EXCEPT !.status = TextStatus(texts.paused), !.hasError = FALSE,
                 !.timeMs = Null, !.errorKind = "paused"]

\* The probe that ping() of the current poll effect puts in flight: the flag
\* isCancelled and the values its closure captured.
NewProbe(A) ==
    [cancelled |-> FALSE, cap |-> maxHistoryPoints(A.interval),
     track |-> trackHistory(A), persian |-> A.persian]

\* setInterval(ping, intervalMs) called at time t.
NewTimer(A, t) ==
    [deadline |-> t + A.interval, interval |-> A.interval, cancelled |-> FALSE,
     cap |-> maxHistoryPoints(A.interval),
     track |-> trackHistory(A), persian |-> A.persian]

\* The cleanup of the poll effect: isCancelled = true; clearInterval(intervalId).
CancelProbes_forgets(ps) == ps
clearInterval_leaks(ts) == ts
CancelProbes(ps) == [i \in 1..Len(ps) |-> [ps[i] EXCEPT !.cancelled = TRUE]]
clearInterval(ts) == {t \in ts : t.cancelled}

\* ------------------------------------------------------ the alert evaluator
\* The body of the alert effect of SortableItem, run at time t with the
\* rendered pingData pd: which alert it emits, if any.
alertEffect_alertsPermission(pd, edit, last, t) ==
    IF edit THEN "none"
    ELSE IF t - last < cooldownMs THEN "none"
    ELSE IF pd.hasError /\ pd.errorKind # "none" /\ pd.errorKind # "paused"
         THEN "failure"
    ELSE IF pd.timeMs # Null /\ pd.timeMs > pingAlertThresholdMs * TenthsPerMs
         THEN "latency"
    ELSE "none"
alertEffect_atThreshold(pd, edit, last, t) ==
    IF edit THEN "none"
    ELSE IF t - last < cooldownMs THEN "none"
    ELSE IF pd.hasError /\ pd.errorKind # "none" /\ pd.errorKind # "permission"
            /\ pd.errorKind # "paused"
         THEN "failure"
    ELSE IF pd.timeMs # Null /\ pd.timeMs >= pingAlertThresholdMs * TenthsPerMs
         THEN "latency"
    ELSE "none"
alertEffect(pd, edit, last, t) ==
    IF edit THEN "none"
    ELSE IF t - last < cooldownMs THEN "none"
    ELSE IF pd.hasError /\ pd.errorKind # "none" /\ pd.errorKind # "permission"
            /\ pd.errorKind # "paused"
         THEN "failure"
    ELSE IF pd.timeMs # Null /\ pd.timeMs > pingAlertThresholdMs * TenthsPerMs
         THEN "latency"
    ELSE "none"

\* The entry the alert effect hands to onLog, with the time addLogEntry stamps.
AlertEntry(kind, host, pd, persian, t) ==
    [type |-> "alert",
     title |-> IF kind = "failure" THEN "logPingAlert" ELSE "logPingHighLatency",
     persian |-> persian,
     label |-> host.label, host |-> host.host,
     status |-> IF kind = "failure" THEN pd.status ELSE MsStatus(pd.timeMs),
     time |-> t]

\* addLogEntry: newest first, the first 200 kept.
addLogEntry_keepsOldest(log, entry) == SliceFirst(log \o <<entry>>, LogCap)

addLogEntry(log, entry) == SliceFirst(<<entry>> \o log, LogCap)

RECURSIVE addLogEntries(_, _)
addLogEntries(log, entries) ==
    IF entries = <<>> THEN log
    ELSE addLogEntries(addLogEntry(log, Head(entries)), Tail(entries))

\* -------------------------------------------------------------- speed test
\* clearSpeedPhaseTimers: every pending timeout is cleared, the list emptied.
clearSpeedPhaseTimers(sp) == [sp EXCEPT !.timers = {}]

\* handleStopSpeed without the step of the request counter.
StoppedSpeed_keepsId(sp) ==
    [clearSpeedPhaseTimers(sp) EXCEPT !.loading = FALSE, !.started = FALSE,
                                      !.metrics = Null, !.phase = "idle"]

\* handleStopSpeed, as a function of the speed test.
StoppedSpeed(sp) ==
    [clearSpeedPhaseTimers(sp) EXCEPT !.id = @ + 1, !.loading = FALSE,
                                      !.started = FALSE, !.metrics = Null,
                                      !.phase = "idle"]

\* handleStartSpeed at time t under locale persian, as a function of the
\* speed test: the run takes the next id, arms the upload-phase timeout and
\* invokes the speed-test command.
StartedSpeed(sp, persian, t) ==
    LET requestId == sp.id + 1
    IN  [clearSpeedPhaseTimers(sp) EXCEPT
            !.id = requestId, !.started = FALSE, !.metrics = Null,
            !.loading = TRUE, !.phase = "download",
            !.timers = {[requestId |-> requestId,
                         deadline |-> t + SPEED_PHASE_DOWNLOAD_DELAY_MS]},
            !.inflight = @ \cup {[requestId |-> requestId, persian |-> persian]}]

\* The effect on [currentPage]: a render whose page is not the speed page
\* stops the speed test (the first render included).
PageEffect(page1, page2, sp) ==
    IF page2 # page1 /\ page2 # "speed" THEN StoppedSpeed(sp) ELSE sp

\* The outcomes of the speed-test command: a result, a result carrying an
\* error, no result, a rejected promise.
SpeedOutcomes == {"result", "error", "empty", "rejected"}

\* The log entry of a completed run.
SpeedEntry(run, t) ==
    [type |-> "speed", title |-> "logSpeedComplete", persian |-> run.persian,
     detail |-> run.requestId, time |-> t]

\* The promise chain of handleStartSpeed for run `run` settling with o:
\* .then (skipped by a rejection), .catch (a rejection only), .finally.
SpeedSettled(sp, run, o) ==
    LET current == run.requestId = sp.id
        s1 == IF o = "rejected" THEN [sp EXCEPT !.phase = "idle"]
              ELSE IF ~current THEN sp
              ELSE IF o = "result"
                   THEN [sp EXCEPT !.metrics = [run |-> run.requestId],
                                   !.started = TRUE, !.phase = "final"]
              ELSE [sp EXCEPT !.phase = "idle"]
        s2 == IF current THEN clearSpeedPhaseTimers([s1 EXCEPT !.loading = FALSE])
              ELSE s1
    IN  [s2 EXCEPT !.inflight = @ \ {run}]

\* ---------------------------------------------------------------- DNS tools
\* The DNS page with nothing stored: the useState initial values.
InitialDns ==
    [dnsDomain |-> <<>>, dnsResults |-> <<>>, dnsLoading |-> FALSE, dnsError |-> "",
     dnsBenchmarkLoading |-> FALSE, dnsBenchmarkStats |-> <<>>,
     dnsBenchmarkRounds |-> Rounds(DefaultRounds), customDnsInput |-> <<>>,
     customDnsServers |-> <<>>, batchDomainsInput |-> <<<<>>>>,
     batchResults |-> <<>>, batchLoading |-> FALSE, ops |-> <<>>,
     dnsToolMode |-> "test", dnsAdapters |-> <<>>, dnsSelectedAdapter |-> "",
     dnsPrimaryInput |-> <<>>, dnsSecondaryInput |-> <<>>,
     dnsManagerLoading |-> FALSE, dnsManagerStatus |-> "", system |-> <<>>]

\* The elements of arr at the indices of keep, from index i on (Array.filter).
RECURSIVE KeepAt(_, _, _)
KeepAt(arr, keep, i) ==
    IF i > Len(arr) THEN <<>>
    ELSE (IF i \in keep THEN <<arr[i]>> ELSE <<>>) \o KeepAt(arr, keep, i + 1)

\* arr.indexOf(value) for a value of arr.
indexOf(arr, value) ==
    CHOOSE i \in 1..Len(arr) : arr[i] = value /\ \A j \in 1..(i - 1) : arr[j] # value

\* handleBatchDomains without the filter on arr.indexOf(value) === index.
batchDomains_keepsRepeats(lines) ==
    LET sanitized == [i \in 1..Len(lines) |-> sanitizeDomain(lines[i])]
        filled == KeepAt(sanitized, {i \in 1..Len(sanitized) : sanitized[i] # <<>>}, 1)
    IN  SliceFirst(filled, BatchLimit)

\* handleBatchDomains: the domains of the lines of batchDomainsInput.
batchDomains(lines) ==
    LET sanitized == [i \in 1..Len(lines) |-> sanitizeDomain(lines[i])]
        filled == KeepAt(sanitized, {i \in 1..Len(sanitized) : sanitized[i] # <<>>}, 1)
        unique == KeepAt(filled, {i \in 1..Len(filled) : indexOf(filled, filled[i]) = i}, 1)
    IN  SliceFirst(unique, BatchLimit)

\* Math.max(1, Math.min(10, Number(dnsBenchmarkRounds) || 3))
clampRounds(r) ==
    Max(Rounds(MinRounds), Min(Rounds(MaxRounds), IF r = 0 THEN Rounds(DefaultRounds) ELSE r))

Busy_never(d) == FALSE

\* dnsLoading || dnsBenchmarkLoading || batchLoading
Busy(d) == d.dnsLoading \/ d.dnsBenchmarkLoading \/ d.batchLoading

\* The responses of test_dns_servers_with_custom: a rejected promise, a
\* response carrying an error, a response with one result per server.
DnsOutcome(rejected, error, results) ==
    [rejected |-> rejected, error |-> error, results |-> results]
DnsRejected == DnsOutcome(TRUE, "", <<>>)
DnsError == DnsOutcome(FALSE, "timeout", <<>>)
DnsResult(server, status, responseTimeMs) ==
    [server |-> server, status |-> status, responseTimeMs |-> responseTimeMs]

\* runDnsCheck up to its await: the domain is sanitized again, and an empty
\* one returns without invoking the command.
runDnsCheck(domain) ==
    [domain |-> sanitizeDomain(domain), ipc |-> sanitizeDomain(domain) # <<>>]

\* runDnsCheck from its await on: what it returns for outcome o.
RunResult(pending, o) ==
    IF ~pending.ipc THEN [results |-> <<>>, error |-> "invalid"]
    ELSE IF o.rejected THEN [results |-> <<>>, error |-> "failed"]
    ELSE IF o.error # "" THEN [results |-> <<>>, error |-> o.error]
    ELSE [results |-> o.results, error |-> ""]

\* A call of a handler awaiting runDnsCheck(domain).
Await(op, domain) ==
    [op EXCEPT !.pending = runDnsCheck(domain),
               !.checked = IF runDnsCheck(domain).ipc
                           THEN Append(@, runDnsCheck(domain).domain) ELSE @]

NewOp(kind, sanitized, persian, rounds, domains) ==
    [kind |-> kind, sanitized |-> sanitized, persian |-> persian, rounds |-> rounds,
     i |-> 0, statsMap |-> <<>>, domains |-> domains, results |-> <<>>,
     pending |-> runDnsCheck(<<>>), checked |-> <<>>, responses |-> <<>>]

\* handleDnsTest up to its await, as a function of the DNS page.
StartTest(d, persian) ==
    LET sanitized == sanitizeDomain(d.dnsDomain)
    IN  IF Busy(d) THEN d
        ELSE IF sanitized = <<>> THEN [d EXCEPT !.dnsError = "dnsInvalid"]
        ELSE [d EXCEPT !.dnsError = "", !.dnsLoading = TRUE,
                       !.dnsBenchmarkStats = <<>>, !.dnsResults = <<>>,
                       !.ops = Append(@, Await(NewOp("test", sanitized, persian,
                                                     0, <<>>), sanitized))]

\* handleDnsBenchmark up to its first await.
StartBenchmark(d, persian) ==
    LET sanitized == sanitizeDomain(d.dnsDomain)
    IN  IF Busy(d) THEN d
        ELSE IF sanitized = <<>> THEN [d EXCEPT !.dnsError = "dnsInvalid"]
        ELSE [d EXCEPT !.dnsError = "", !.dnsBenchmarkLoading = TRUE,
                       !.dnsBenchmarkStats = <<>>,
                       !.ops = Append(@, Await(NewOp("benchmark", sanitized, persian,
                                                     clampRounds(d.dnsBenchmarkRounds),
                                                     <<>>), sanitized))]

\* handleBatchDomains up to its first await.
StartBatch(d, persian) ==
    LET domains == batchDomains(d.batchDomainsInput)
    IN  IF Busy(d) THEN d
        ELSE IF domains = <<>> THEN [d EXCEPT !.dnsError = "dnsBatchInvalid"]
        ELSE [d EXCEPT !.dnsError = "", !.batchLoading = TRUE,
                       !.batchResults = <<>>,
                       !.ops = Append(@, Await(NewOp("batch", <<>>, persian, 0,
                                                     domains), domains[1]))]

\* results.filter((item) => item.status).length
usableCount(results) == Cardinality({i \in 1..Len(results) : results[i].status})

\* The body of the loop over response.results of handleDnsBenchmark.
TallyItem(statsMap, item) ==
    LET known == {i \in 1..Len(statsMap) : statsMap[i].server = item.server}
        map1 == IF known = {}
                THEN Append(statsMap, [server |-> item.server, ok |-> 0, total |-> 0,
                                       totalMs |-> 0])
                ELSE statsMap
        at == CHOOSE i \in 1..Len(map1) : map1[i].server = item.server
    IN  [map1 EXCEPT ![at] =
            [@ EXCEPT !.total = @ + 1,
                      !.ok = IF item.status THEN @ + 1 ELSE @,
                      !.totalMs = IF item.status /\ item.responseTimeMs # Null
                                  THEN @ + item.responseTimeMs ELSE @]]

RECURSIVE Tally(_, _)
Tally(statsMap, results) ==
    IF results = <<>> THEN statsMap
    ELSE Tally(TallyItem(statsMap, Head(results)), Tail(results))

\* A number as the fraction sum / n; n = 0 is Number.POSITIVE_INFINITY.
Infinity == [sum |-> 1, n |-> 0]

averageMs_overTotal(item) ==
    IF item.ok > 0 THEN [sum |-> item.totalMs, n |-> item.total] ELSE Infinity

\* item.ok > 0 ? item.totalMs / item.ok : Number.POSITIVE_INFINITY
averageMs(item) ==
    IF item.ok > 0 THEN [sum |-> item.totalMs, n |-> item.ok] ELSE Infinity

\* The sign of a - b; Infinity - Infinity is NaN, which sort reads as 0.
Minus(a, b) ==
    IF a.n = 0 /\ b.n = 0 THEN 0
    ELSE IF a.n = 0 THEN 1
    ELSE IF b.n = 0 THEN -1
    ELSE a.sum * b.n - b.sum * a.n

\* Math.round((item.ok / item.total) * 100)
successRate(item) == (2 * Percent * item.ok + item.total) \div (2 * item.total)

\* Array.prototype.sort((a, b) => a.averageMs - b.averageMs): stable.
InsertStat(sorted, x) ==
    LET after == {i \in 1..Len(sorted) : Minus(sorted[i].averageMs, x.averageMs) > 0}
        at == IF after = {} THEN Len(sorted) + 1 ELSE MinOf(after)
    IN  SubSeq(sorted, 1, at - 1) \o <<x>> \o SubSeq(sorted, at, Len(sorted))

RECURSIVE sortStats(_)
sortStats(arr) ==
    IF arr = <<>> THEN <<>>
    ELSE InsertStat(sortStats(SubSeq(arr, 1, Len(arr) - 1)), arr[Len(arr)])

\* The stats handleDnsBenchmark publishes for statsMap.
benchmarkStats(statsMap) ==
    sortStats([i \in 1..Len(statsMap) |->
                  [server |-> statsMap[i].server,
                   averageMs |-> averageMs(statsMap[i]),
                   successRate |-> successRate(statsMap[i])]])

\* stats.filter((item) => Number.isFinite(item.averageMs)).slice(0, 3)
fastest(stats) ==
    SliceFirst(KeepAt(stats, {i \in 1..Len(stats) : stats[i].averageMs.n # 0}, 1),
               FastestShown)

DnsEntry(title, op, detail, t) ==
    [type |-> "dns", title |-> title, persian |-> op.persian, detail |-> detail,
     time |-> t]

\* The rest of handleDnsTest once runDnsCheck has returned r.
TestSettled(d, op, r, t) ==
    IF r.error # ""
    THEN [dns |-> [d EXCEPT !.dnsError = "dnsInvalid", !.dnsLoading = FALSE],
          log |-> <<DnsEntry("logDnsFailed", op, op.sanitized, t)>>]
    ELSE [dns |-> [d EXCEPT !.dnsResults = r.results, !.dnsLoading = FALSE],
          log |-> <<DnsEntry("logDnsResult", op,
                             <<op.sanitized, usableCount(r.results),
                               Len(r.results) - usableCount(r.results)>>, t)>>]

\* handleDnsBenchmark with its catch block left out.
BenchmarkSettled_goesOn(d, op, r, t) ==
    LET statsMap == Tally(op.statsMap, r.results)
        stats == benchmarkStats(statsMap)
    IN  IF ~(Rounds(op.i + 1) < op.rounds)
        THEN [dns |-> [d EXCEPT !.dnsResults = IF Rounds(op.i) = op.rounds - Rounds(1)
                                               THEN r.results ELSE @,
                                !.dnsBenchmarkStats = stats,
                                !.dnsBenchmarkLoading = FALSE],
              log |-> <<DnsEntry("logDnsBenchmark", op,
                                 <<op.sanitized, op.rounds, fastest(stats)>>, t)>>]
        ELSE [dns |-> [d EXCEPT !.ops = Append(@,
                            Await([op EXCEPT !.i = @ + 1, !.statsMap = statsMap,
                                             !.responses = Append(@, r.results)],
                                  op.sanitized))],
              log |-> <<>>]

\* The rest of handleDnsBenchmark once the runDnsCheck of round op.i has
\* returned r: the round is tallied and, while i + 1 < rounds, the next round
\* is awaited; otherwise the stats are published. The results of the round
\* are displayed if i === rounds - 1. An error ends the benchmark in the
\* catch block.
BenchmarkSettled(d, op, r, t) ==
    LET statsMap == Tally(op.statsMap, r.results)
        stats == benchmarkStats(statsMap)
    IN  IF r.error # ""
        THEN [dns |-> [d EXCEPT !.dnsError = "dnsBenchmarkFailed",
                                !.dnsBenchmarkLoading = FALSE],
              log |-> <<DnsEntry("logDnsFailed", op,
                                 <<op.sanitized, "dnsBenchmarkFailed">>, t)>>]
        ELSE IF ~(Rounds(op.i + 1) < op.rounds)
        THEN [dns |-> [d EXCEPT !.dnsResults = IF Rounds(op.i) = op.rounds - Rounds(1)
                                               THEN r.results ELSE @,
                                !.dnsBenchmarkStats = stats,
                                !.dnsBenchmarkLoading = FALSE],
              log |-> <<DnsEntry("logDnsBenchmark", op,
                                 <<op.sanitized, op.rounds, fastest(stats)>>, t)>>]
        ELSE [dns |-> [d EXCEPT !.ops = Append(@,
                            Await([op EXCEPT !.i = @ + 1, !.statsMap = statsMap,
                                             !.responses = Append(@, r.results)],
                                  op.sanitized))],
              log |-> <<>>]

\* The rest of handleBatchDomains once the runDnsCheck of its domain
\* Len(op.results) + 1 has returned r.
BatchSettled(d, op, r, t) ==
    LET domain == op.domains[Len(op.results) + 1]
        results == Append(op.results,
                     [domain |-> domain,
                      status |-> IF usableCount(r.results) > 0 THEN "resolved"
                                 ELSE "unresolved",
                      usableCount |-> usableCount(r.results),
                      blockedCount |-> Len(r.results) - usableCount(r.results)])
        resolved == {i \in 1..Len(results) : results[i].status = "resolved"}
    IN  IF Len(results) < Len(op.domains)
        THEN [dns |-> [d EXCEPT !.ops = Append(@,
                            Await([op EXCEPT !.results = results],
                                  op.domains[Len(results) + 1]))],
              log |-> <<>>]
        ELSE [dns |-> [d EXCEPT !.batchResults = results, !.batchLoading = FALSE],
              log |-> <<DnsEntry("logDomainBatch", op,
                                 <<Len(results), Cardinality(resolved)>>, t)>>]

\* The call d.ops[i] resumes with outcome o of its runDnsCheck.
DnsSettled(d, i, o, t) ==
    LET op == d.ops[i]
        r == RunResult(op.pending, o)
        rest == [d EXCEPT !.ops = RemoveAt(@, i)]
    IN  CASE op.kind = "test" -> TestSettled(rest, op, r, t)
          [] op.kind = "benchmark" -> BenchmarkSettled(rest, op, r, t)
          [] op.kind = "batch" -> BatchSettled(rest, op, r, t)

\* handleAddCustomDns, as a function of the DNS page.
AddedCustomDns(d) ==
    LET normalized == normalizeDnsServer(d.customDnsInput)
        known == \E i \in 1..Len(d.customDnsServers) : d.customDnsServers[i] = normalized
    IN  IF ~isValidDnsServer(normalized) THEN [d EXCEPT !.dnsError = "dnsCustomInvalid"]
        ELSE [d EXCEPT !.dnsError = "",
                       !.customDnsServers = IF known THEN @ ELSE Append(@, normalized),
                       !.customDnsInput = <<>>]

\* loadDnsAdapters up to its await.
loadDnsAdapters(d, finishes) ==
    [d EXCEPT !.system = Append(@, [command |-> "list_dns_adapters",
                                    finishes |-> finishes, detail |-> <<>>])]

\* The effect on [currentPage, dnsToolMode]: the adapters are loaded when
\* the manager of the DNS page comes into view.
AdaptersEffect(page1, mode1, page2, d) ==
    IF page2 = "dns" /\ d.dnsToolMode = "manager"
       /\ (page1 # page2 \/ mode1 # d.dnsToolMode)
    THEN loadDnsAdapters(d, FALSE)
    ELSE d

\* The rest of loadDnsAdapters for the adapters the command returned (the
\* empty list when it rejected), then the finally block of the handler that
\* awaited it.
AdaptersLoaded(d, call, rejected, adapters) ==
    LET known == \E i \in 1..Len(adapters) : adapters[i].name = d.dnsSelectedAdapter
        selectedName == IF known THEN d.dnsSelectedAdapter ELSE adapters[1].name
        selected == adapters[CHOOSE i \in 1..Len(adapters) :
                                adapters[i].name = selectedName]
        d1 == IF rejected THEN [d EXCEPT !.dnsAdapters = <<>>]
              ELSE IF adapters = <<>>
              THEN [d EXCEPT !.dnsAdapters = <<>>, !.dnsSelectedAdapter = "",
                             !.dnsPrimaryInput = <<>>, !.dnsSecondaryInput = <<>>]
              ELSE [d EXCEPT !.dnsAdapters = adapters,
                             !.dnsSelectedAdapter = selectedName,
                             !.dnsPrimaryInput = selected.dns[1],
                             !.dnsSecondaryInput = selected.dns[2]]
    IN  IF call.finishes THEN [d1 EXCEPT !.dnsManagerLoading = FALSE] ELSE d1

\* handleApplySystemDns up to its await.
ApplySystemDns(d) ==
    IF d.dnsSelectedAdapter = "" \/ ~isValidDnsServer(d.dnsPrimaryInput)
    THEN [d EXCEPT !.dnsManagerStatus = "dnsCustomInvalid"]
    ELSE IF trim(d.dnsSecondaryInput) # <<>> /\ ~isValidDnsServer(d.dnsSecondaryInput)
    THEN [d EXCEPT !.dnsManagerStatus = "dnsCustomInvalid"]
    ELSE [d EXCEPT !.dnsManagerLoading = TRUE, !.dnsManagerStatus = "",
                   !.system = Append(@, [command |-> "set_adapter_dns",
                                         finishes |-> TRUE,
                                         detail |-> <<d.dnsSelectedAdapter,
                                                      trim(d.dnsPrimaryInput),
                                                      trim(d.dnsSecondaryInput)>>])]

\* The rest of handleApplySystemDns for outcome o of the set_adapter_dns
\* invocation `call`, up to its second await or its end.
ApplySettled(d, call, o, persian, t) ==
    IF o = "success"
    THEN [dns |-> loadDnsAdapters([d EXCEPT !.dnsManagerStatus = "dnsManagerApplied"],
                                  TRUE),
          log |-> <<[type |-> "dns", title |-> "logDnsResult", persian |-> persian,
                     detail |-> call.detail, time |-> t]>>]
    ELSE [dns |-> [d EXCEPT !.dnsManagerStatus = "dnsManagerFailed",
                            !.dnsManagerLoading = FALSE],
          log |-> <<>>]

\* The effects on [batchDomainsInput], [dnsBenchmarkRounds] and
\* [customDnsServers]: each value is written to localStorage.
PersistDns(ls, d) ==
    [ls EXCEPT !.customDnsServers = d.customDnsServers,
               !.dnsBatchDomainsInput = d.batchDomainsInput,
               !.dnsBenchmarkRounds = d.dnsBenchmarkRounds]

\* --------------------------------------------------- one render of one item
\* The item of host k after the handler that took the App from A1 to A2 at
\* time t: c0 is the item before the handler, c the item after the handler's
\* own state updates. The render commits, the effects whose dependencies
\* changed run in order (trim, track, poll, alert), and the state update the
\* poll effect makes (the paused placeholder) renders once more.
BlankItem ==
    [mounted |-> FALSE, pingData |-> InitialPingData, history |-> <<>>,
     lastAlertRef |-> 0, timers |-> {}, inflight |-> <<>>, emitted |-> <<>>]

\* Unmounting runs the cleanup of the poll effect and drops the state and the
\* ref of the component; the invocations in flight stay in flight.
Unmounted(c) ==
    [BlankItem EXCEPT !.timers = clearInterval(c.timers),
                      !.inflight = CancelProbes(c.inflight)]

\* Mounting starts from useState's and useRef's initial values.
FreshItem(c) ==
    [BlankItem EXCEPT !.mounted = TRUE, !.timers = c.timers,
                      !.inflight = c.inflight]

RenderItem(k, A1, A2, c0, c, t) ==
    IF ~IsRendered(A2, k) THEN
        IF c0.mounted THEN Unmounted(c) ELSE [c EXCEPT !.emitted = <<>>]
    ELSE
    LET was == c0.mounted
        m == IF was THEN c ELSE FreshItem(c)
        host == HostOf(A2.hosts, k)
        cap2 == maxHistoryPoints(A2.interval)
        \* the trim effect, deps [maxHistoryPoints]
        hist1 == IF ~was \/ maxHistoryPoints(A1.interval) # cap2
                 THEN trimHistory(m.history, cap2) ELSE m.history
        \* the track effect, deps [trackHistory]
        hist2 == IF (~was \/ trackHistory(A1) # trackHistory(A2)) /\ ~trackHistory(A2)
                 THEN <<>> ELSE hist1
        \* the poll effect: cleanup of the previous run, then the body
        rerun == ~was \/ PollDeps(A1, k) # PollDeps(A2, k)
        cleanedProbes == IF was /\ rerun THEN CancelProbes(m.inflight) ELSE m.inflight
        cleanedTimers == IF was /\ rerun THEN clearInterval(m.timers) ELSE m.timers
        enabled == shouldPollPing(A2, k)
        starts == rerun /\ enabled
        probes2 == IF starts THEN Append(cleanedProbes, NewProbe(A2))
                   ELSE cleanedProbes
        timers2 == IF starts THEN cleanedTimers \cup {NewTimer(A2, t)}
                   ELSE cleanedTimers
        pd2 == IF rerun /\ ~enabled /\ isPaused(A2, k)
               THEN PausedData(m.pingData, statusTexts(A2.persian)) ELSE m.pingData
        \* the alert effect after the first render
        run1 == ~was \/ AlertDeps(A1, k, c0.pingData) # AlertDeps(A2, k, m.pingData)
        kind1 == IF run1 THEN alertEffect(m.pingData, A2.edit, m.lastAlertRef, t)
                 ELSE "none"
        last1 == IF kind1 # "none" THEN t ELSE m.lastAlertRef
        \* the alert effect after the render that follows setPingData
        run2 == AlertDeps(A2, k, m.pingData) # AlertDeps(A2, k, pd2)
        kind2 == IF run2 THEN alertEffect(pd2, A2.edit, last1, t) ELSE "none"
        last2 == IF kind2 # "none" THEN t ELSE last1
    IN  [mounted |-> TRUE, pingData |-> pd2, history |-> hist2,
         lastAlertRef |-> last2, timers |-> timers2, inflight |-> probes2,
         emitted |->
            (IF kind1 # "none"
             THEN <<AlertEntry(kind1, host, m.pingData, A2.persian, t)>> ELSE <<>>)
            \o (IF kind2 # "none"
                THEN <<AlertEntry(kind2, host, pd2, A2.persian, t)>> ELSE <<>>)]

\* ------------------------------------------------------------------- commit
\* One lastAlertRef for all cards: the latest alert of any host.
CardOf_sharedRef(R, k) ==
    [R[k] EXCEPT !.lastAlertRef =
        CHOOSE x \in {R[j].lastAlertRef : j \in HostKeys} :
            \A j \in HostKeys : R[j].lastAlertRef <= x]

\* What the card of host k renders from: its own state and its own
\* lastAlertRef (useRef(0) of the SortableItem).
CardOf(R, k) == R[k]

RECURSIVE EmittedBy(_, _)
EmittedBy(R, keys) ==
    IF keys = <<>> THEN <<>>
    ELSE R[Head(keys)].emitted \o EmittedBy(R, Tail(keys))

\* The state after a handler took the App to A2, the items to base, the log
\* to log1 and the speed test to sp (its own state updates) at time t,
\* having written ls to localStorage: every item renders, the entries the
\* alert effects emit reach addLogEntry in render order, and the effect on
\* the page runs.
Render(A2, base, ls, t, log1, sp) ==
    /\ items' = [k \in HostKeys |-> RenderItem(k, Cur, A2, items[k], CardOf(base, k), t)]
    /\ LET entries == IF A2.page = "ping"
                      THEN EmittedBy(items', KeysInOrder(A2.hosts)) ELSE <<>>
           log2 == addLogEntries(log1, entries)
       IN  /\ logEntries' = log2
           /\ localStorage' = IF entries = <<>> THEN ls
                              ELSE [ls EXCEPT !.logEntries = log2]
    /\ currentPage' = A2.page
    /\ pingIntervalMs' = A2.interval
    /\ optimizationEnabled' = A2.opt
    /\ isPersian' = A2.persian
    /\ isEditMode' = A2.edit
    /\ allHosts' = A2.hosts
    /\ now' = t
    /\ speed' = PageEffect(currentPage, A2.page, sp)
    /\ UNCHANGED capVars

\* A handler that leaves the log and the speed test to the effects.
Commit(A2, base, ls, t) ==
    /\ Render(A2, base, ls, t, logEntries, speed)
    /\ dns' = AdaptersEffect(currentPage, dns.dnsToolMode, A2.page, dns)

\* ------------------------------------------------------------------ actions
\* The promise of invoke('ping_host') of probe i of host k settles with o:
\* the rest of ping().
ResultArrives(k, i, o) ==
    /\ i \in 1..Len(items[k].inflight)
    /\ LET c == items[k]
           p == c.inflight[i]
           got == Classify(o, statusTexts(p.persian))
           c2 == IF p.cancelled
                 THEN [c EXCEPT !.inflight = RemoveAt(c.inflight, i)]
                 ELSE [c EXCEPT !.inflight = RemoveAt(c.inflight, i),
                                !.history = pushHistory(c.history, got[1], p.track, p.cap),
                                !.pingData = got[2]]
       IN  Commit(Cur, [items EXCEPT ![k] = c2], localStorage, now)

\* A setInterval timer of host k is due and calls ping(): invoke puts a probe
\* in flight.
TimerFires(k, tm) ==
    /\ tm \in items[k].timers
    /\ now >= tm.deadline
    /\ LET c == items[k]
           probe == [cancelled |-> tm.cancelled, cap |-> tm.cap, track |-> tm.track,
                     persian |-> tm.persian]
           c2 == [c EXCEPT !.inflight = Append(@, probe),
                           !.timers = (@ \ {tm})
                                \cup {[tm EXCEPT !.deadline = @ + tm.interval]}]
       IN  Commit(Cur, [items EXCEPT ![k] = c2], localStorage, now)

\* Time passes by d, at most to the next timer deadline.
AdvanceClock(d) ==
    /\ d > 0
    /\ \A k \in HostKeys : \A tm \in items[k].timers : now + d <= tm.deadline
    /\ \A tm \in speed.timers : now + d <= tm.deadline
    /\ Commit(Cur, items, localStorage, now + d)

\* updateHostById; the updater is a function on the host records.
updateHostById(hs, hostId, updater) ==
    [i \in 1..Len(hs) |-> IF getHostKey(hs[i]) # hostId THEN hs[i] ELSE updater[hs[i]]]

\* handleToggleHostPause, from the pause button of a card (rendered on the
\* ping page when edit mode is off).
handleToggleHostPause(k) ==
    /\ currentPage = "ping"
    /\ ~isEditMode
    /\ InList(allHosts, k)
    /\ LET flip == [item \in {allHosts[i] : i \in 1..Len(allHosts)} |->
                        [item EXCEPT !.paused = ~item.paused]]
           hs == updateHostById(allHosts, k, flip)
       IN  Commit([Cur EXCEPT !.hosts = hs], items,
                  [localStorage EXCEPT !.allHosts = hs], now)

\* The edit button of the ping page: setIsEditMode(!isEditMode).
ToggleEditMode ==
    /\ currentPage = "ping"
    /\ Commit([Cur EXCEPT !.edit = ~isEditMode], items, localStorage, now)

\* toggleLocale, from the top bar of every page.
toggleLocale ==
    Commit([Cur EXCEPT !.persian = ~isPersian], items,
           [localStorage EXCEPT !.locale = IF isPersian THEN "en" ELSE "fa"], now)

\* A sidebar item: setCurrentPage(page).
Pages == {"ping", "dns", "speed", "log", "about", "settings"}
setCurrentPage(page) ==
    /\ page \in Pages
    /\ page # currentPage
    /\ Commit([Cur EXCEPT !.page = page], items, localStorage, now)

\* handlePingIntervalChange with Number(event.target.value) = value.
handlePingIntervalChange(value) ==
    IF value <= 0
    THEN Commit(Cur, items, localStorage, now)
    ELSE Commit([Cur EXCEPT !.interval = value], items,
                [localStorage EXCEPT !.pingIntervalMs = value], now)

\* The log and the stored copy after addLogEntry(entry).
Logged(entry) ==
    [log |-> addLogEntry(logEntries, entry),
     ls |-> [localStorage EXCEPT !.logEntries = addLogEntry(logEntries, entry)]]

\* handleStartSpeed, from the play button of the speed page (shown while no
\* run is loading) or the restart button of the result view.
handleStartSpeed ==
    /\ currentPage = "speed"
    /\ ~speed.loading
    /\ Render(Cur, items, localStorage, now, logEntries,
              StartedSpeed(speed, isPersian, now))
    /\ UNCHANGED dns

\* handleStopSpeed, from the play button of the speed page while a run is
\* loading.
handleStopSpeed ==
    /\ currentPage = "speed"
    /\ speed.loading
    /\ Render(Cur, items, localStorage, now, logEntries, StoppedSpeed(speed))
    /\ UNCHANGED dns

\* The upload-phase timeout of run tm.requestId is due.
SpeedPhaseTimeout(tm) ==
    /\ tm \in speed.timers
    /\ now >= tm.deadline
    /\ Render(Cur, items, localStorage, now, logEntries,
              [speed EXCEPT !.timers = @ \ {tm},
                            !.phase = IF tm.requestId = speed.id THEN "upload"
                                      ELSE @])
    /\ UNCHANGED dns

\* The promise of the speed-test command of run `run` settles with o.
SpeedResponse(run, o) ==
    /\ run \in speed.inflight
    /\ o \in SpeedOutcomes
    /\ LET sp == SpeedSettled(speed, run, o)
           new == IF o = "result" /\ run.requestId = speed.id
                  THEN Logged(SpeedEntry(run, now))
                  ELSE [log |-> logEntries, ls |-> localStorage]
       IN  Render(Cur, items, new.ls, now, new.log, sp)
    /\ UNCHANGED dns

\* A handler or continuation of the DNS page that takes the page to d and
\* adds entries to the log: the render that follows persists the inputs.
DnsStep(d, entries) ==
    LET log1 == addLogEntries(logEntries, entries)
        ls == IF entries = <<>> THEN localStorage
              ELSE [localStorage EXCEPT !.logEntries = log1]
    IN  /\ Render(Cur, items, PersistDns(ls, d), now, log1, speed)
        /\ dns' = d

\* The inputs of the DNS page, disabled while an operation is loading.
setDnsDomain(value) ==
    /\ currentPage = "dns" /\ dns.dnsToolMode = "test"
    /\ ~Busy(dns)
    /\ DnsStep([dns EXCEPT !.dnsDomain = value], <<>>)

setBatchDomainsInput(lines) ==
    /\ currentPage = "dns" /\ dns.dnsToolMode = "test"
    /\ ~Busy(dns)
    /\ DnsStep([dns EXCEPT !.batchDomainsInput = lines], <<>>)

setCustomDnsInput(value) ==
    /\ currentPage = "dns" /\ dns.dnsToolMode = "test"
    /\ ~Busy(dns)
    /\ DnsStep([dns EXCEPT !.customDnsInput = value], <<>>)

\* handleBenchmarkRoundsChange with Number(event.target.value) = value, in
\* halves of a round.
handleBenchmarkRoundsChange(value) ==
    /\ currentPage = "dns" /\ dns.dnsToolMode = "test"
    /\ ~Busy(dns)
    /\ DnsStep(IF value <= 0 THEN dns
               ELSE [dns EXCEPT !.dnsBenchmarkRounds =
                                Min(Rounds(MaxRounds), Max(Rounds(MinRounds), value))],
               <<>>)

\* handleDnsTest, handleDnsBenchmark and handleBatchDomains are modelled as
\* called, whether or not their button is disabled.
handleDnsTest ==
    /\ currentPage = "dns" /\ dns.dnsToolMode = "test"
    /\ DnsStep(StartTest(dns, isPersian), <<>>)

handleDnsBenchmark ==
    /\ currentPage = "dns" /\ dns.dnsToolMode = "test"
    /\ DnsStep(StartBenchmark(dns, isPersian), <<>>)

handleBatchDomains ==
    /\ currentPage = "dns" /\ dns.dnsToolMode = "test"
    /\ DnsStep(StartBatch(dns, isPersian), <<>>)

handleAddCustomDns ==
    /\ currentPage = "dns" /\ dns.dnsToolMode = "test"
    /\ DnsStep(AddedCustomDns(dns), <<>>)

handleRemoveCustomDns(serverToRemove) ==
    /\ currentPage = "dns" /\ dns.dnsToolMode = "test"
    /\ DnsStep([dns EXCEPT !.customDnsServers =
                    KeepAt(@, {i \in 1..Len(@) : @[i] # serverToRemove}, 1)], <<>>)

\* The runDnsCheck awaited by call i returns with outcome o of the command.
DnsResponse(i, o) ==
    /\ i \in 1..Len(dns.ops)
    /\ dns.ops[i].pending.ipc
    /\ LET settled == DnsSettled(dns, i, o, now)
       IN  DnsStep(settled.dns, settled.log)

\* The runDnsCheck awaited by call i returns without having invoked the
\* command: its domain sanitized to the empty string.
DnsReturnsInvalid(i) ==
    /\ i \in 1..Len(dns.ops)
    /\ ~dns.ops[i].pending.ipc
    /\ LET settled == DnsSettled(dns, i, DnsRejected, now)
       IN  DnsStep(settled.dns, settled.log)

\* useHosts.addHost at time t: the new host is put in front of the list.
addHost(hs, host, t) ==
    <<[type |-> "custom", id |-> t, pinned |-> FALSE, paused |-> FALSE,
       label |-> host.label, host |-> host.host]>> \o hs

\* The filter of handleDeleteHost.
deleteHost(hs, hostToDelete) ==
    KeepAt(hs, {i \in 1..Len(hs) :
                    IF hs[i].type = "custom" THEN hs[i].id # hostToDelete.id
                    ELSE ~(hs[i].label = hostToDelete.label
                           /\ hs[i].host = hostToDelete.host)}, 1)

\* The updater of handleToggleHostPin: a host that becomes pinned moves to
\* the front, a host that becomes unpinned stays at its index.
toggleHostPin(hs, hostId) ==
    IF ~InList(hs, hostId) THEN hs
    ELSE LET sourceIndex == CHOOSE i \in 1..Len(hs) : getHostKey(hs[i]) = hostId
             nextPinned == ~hs[sourceIndex].pinned
             updated == [hs[sourceIndex] EXCEPT !.pinned = nextPinned]
             rest == KeepAt(hs, (1..Len(hs)) \ {sourceIndex}, 1)
         IN  IF nextPinned THEN <<updated>> \o rest
             ELSE SubSeq(rest, 1, sourceIndex - 1) \o <<updated>>
                    \o SubSeq(rest, sourceIndex, Len(rest))

\* arrayMove of @dnd-kit/sortable: the element at oldIndex is taken out and
\* put back at newIndex.
arrayMove(arr, oldIndex, newIndex) ==
    LET rest == KeepAt(arr, (1..Len(arr)) \ {oldIndex}, 1)
    IN  SubSeq(rest, 1, newIndex - 1) \o <<arr[oldIndex]>>
            \o SubSeq(rest, newIndex, Len(rest))

\* The updater of moveHostByIds.
movedHosts(hs, activeId, overId) ==
    IF ~InList(hs, activeId) \/ ~InList(hs, overId) \/ activeId = overId THEN hs
    ELSE arrayMove(hs, CHOOSE i \in 1..Len(hs) : getHostKey(hs[i]) = activeId,
                   CHOOSE i \in 1..Len(hs) : getHostKey(hs[i]) = overId)

\* The host list becomes hs and is stored.
SetHosts(hs) ==
    Commit([Cur EXCEPT !.hosts = hs], items, [localStorage EXCEPT !.allHosts = hs], now)

\* handleSaveHost for the form opened by handleAddNewHost (the add button of
\* the ping page), saved with a label and a host that are not blank.
handleSaveHost(label, host) ==
    /\ currentPage = "ping"
    /\ ~InList(allHosts, <<"custom", now>>)
    /\ <<"custom", now>> \in HostKeys
    /\ SetHosts(addHost(allHosts, [label |-> label, host |-> host], now))

\* handleDeleteHost, from the delete button a card shows in edit mode.
handleDeleteHost(k) ==
    /\ currentPage = "ping"
    /\ isEditMode
    /\ InList(allHosts, k)
    /\ SetHosts(deleteHost(allHosts, HostOf(allHosts, k)))

\* handleToggleHostPin, from the pin button a card shows outside edit mode.
handleToggleHostPin(k) ==
    /\ currentPage = "ping"
    /\ ~isEditMode
    /\ InList(allHosts, k)
    /\ SetHosts(toggleHostPin(allHosts, k))

\* handleDragEnd for the card of activeId dropped on the card of overId; the
\* drag handle is shown in edit mode.
handleDragEnd(activeId, overId) ==
    /\ currentPage = "ping"
    /\ isEditMode
    /\ InList(allHosts, activeId) /\ InList(allHosts, overId)
    /\ activeId # overId
    /\ SetHosts(movedHosts(allHosts, activeId, overId))

\* The tab of the DNS page: setDnsToolMode(mode).
setDnsToolMode(mode) ==
    /\ currentPage = "dns"
    /\ mode # dns.dnsToolMode
    /\ DnsStep(AdaptersEffect(currentPage, dns.dnsToolMode, currentPage,
                              [dns EXCEPT !.dnsToolMode = mode]), <<>>)

\* The inputs of the manager, disabled while it is loading or no adapter is
\* selected.
setDnsPrimaryInput(value) ==
    /\ currentPage = "dns" /\ dns.dnsToolMode = "manager"
    /\ ~dns.dnsManagerLoading /\ dns.dnsSelectedAdapter # ""
    /\ DnsStep([dns EXCEPT !.dnsPrimaryInput = value], <<>>)

setDnsSecondaryInput(value) ==
    /\ currentPage = "dns" /\ dns.dnsToolMode = "manager"
    /\ ~dns.dnsManagerLoading /\ dns.dnsSelectedAdapter # ""
    /\ DnsStep([dns EXCEPT !.dnsSecondaryInput = value], <<>>)

\* handleApplySystemDns, from the Apply button, disabled while the manager
\* is loading or no adapter is selected.
handleApplySystemDns ==
    /\ currentPage = "dns" /\ dns.dnsToolMode = "manager"
    /\ ~dns.dnsManagerLoading /\ dns.dnsSelectedAdapter # ""
    /\ DnsStep(ApplySystemDns(dns), <<>>)

\* The invocation at the head of dns.system settles: list_dns_adapters with
\* a list of adapters or a rejection, set_adapter_dns with outcome o.
AdaptersResponse(rejected, adapters) ==
    /\ dns.system # <<>>
    /\ Head(dns.system).command = "list_dns_adapters"
    /\ DnsStep(AdaptersLoaded([dns EXCEPT !.system = Tail(@)], Head(dns.system),
                              rejected, adapters), <<>>)

ApplyResponse(o) ==
    /\ dns.system # <<>>
    /\ Head(dns.system).command = "set_adapter_dns"
    /\ LET settled == ApplySettled([dns EXCEPT !.system = Tail(@)], Head(dns.system),
                                   o, isPersian, now)
       IN  DnsStep(settled.dns, settled.log)

\* maxHistoryPoints applied to capIn.
ComputeCap ==
    /\ capOut = Null
    /\ capOut' = maxHistoryPoints(capIn)
    /\ UNCHANGED <<capIn, appVars, items, obsVars, speed, dns>>

\* ----------------------------------------------------------- initial states
\* The state once App has read localStorage (stored interval si, stored
\* optimization flag, stored locale, stored host list) and the ping page
\* has rendered for the first time at StartTime.
\* The state after the first render and its effects, loaded being what the
\* effect of useHosts made of the stored host list.
InitLoaded(si, opt, persian, loaded, log) ==
    LET hosts == loaded.hosts
        A == App("ping", IF si = Null THEN DefaultPingIntervalMs ELSE si, opt,
                 persian, FALSE, hosts)
    IN  /\ currentPage = A.page
        /\ pingIntervalMs = A.interval
        /\ optimizationEnabled = A.opt
        /\ isPersian = A.persian
        /\ isEditMode = A.edit
        /\ allHosts = A.hosts
        /\ logEntries = log
        /\ localStorage = [allHosts |-> loaded.stored, logEntries |-> log,
                           pingIntervalMs |-> si, optimizationEnabled |-> opt,
                           locale |-> IF persian THEN "fa" ELSE "en",
                           customDnsServers |-> InitialDns.customDnsServers,
                           dnsBatchDomainsInput |-> InitialDns.batchDomainsInput,
                           dnsBenchmarkRounds |-> InitialDns.dnsBenchmarkRounds]
        /\ dns = InitialDns
        /\ now = StartTime
        /\ items = [k \in HostKeys |->
                        RenderItem(k, A, A, BlankItem, BlankItem, StartTime)]
        /\ lastEvent = "init"
        /\ observed = [k \in HostKeys |->
                        [issued |-> Len(items[k].inflight), since |-> StartTime,
                         settled |-> 0, steady |-> TRUE, fixed |-> TRUE,
                         last |-> IF items[k].inflight = <<>> THEN Null
                                  ELSE StartTime,
                         numbers |-> [i \in 1..Len(items[k].inflight) |-> i]]]
        /\ capOut = Null
        /\ speed = PageEffect("", A.page,
                              [id |-> 0, started |-> FALSE, loading |-> FALSE,
                               metrics |-> Null, phase |-> "idle", timers |-> {},
                               inflight |-> {}])

\* The stored host list was hosts.
InitWithLog(si, opt, persian, hosts, log) ==
    InitLoaded(si, opt, persian, [hosts |-> hosts, stored |-> hosts], log)

InitWith(si, opt, persian, hosts) == InitWithLog(si, opt, persian, hosts, <<>>)

\* What bounds a run: the invocations in flight per host, the log, the
\* history and the clock.
Bounded(maxLog, maxHist, horizon) ==
    /\ \A k \in HostKeys : /\ Len(items'[k].inflight) <= MaxInFlight
                           /\ Len(items'[k].history) <= maxHist
    /\ Len(logEntries') <= maxLog
    /\ now' <= StartTime + horizon
    /\ speed'.id <= MaxSpeedRequests
    /\ Len(dns'.system) <= MaxInFlight

\* The outcomes of ping_host.
NoError == <<>>
Outcome(rejected, error, alive, time) ==
    [rejected |-> rejected, error |-> error, alive |-> alive, time |-> time]
Rejected == Outcome(TRUE, NoError, FALSE, Null)
PermissionError == Outcome(FALSE, <<"ping", "permission", "denied">>, FALSE, Null)
OtherError == Outcome(FALSE, <<"request", "timed", "out">>, FALSE, Null)
NoReply == Outcome(FALSE, NoError, FALSE, Null)
Alive(time) == Outcome(FALSE, NoError, TRUE, time)

\* ------------------------------------------------------------- the observers
\* The observers record what a step was; they are read by no action.
\* The step leaves host k with one more invocation in flight.
Issues(k) == Len(items'[k].inflight) = Len(items[k].inflight) + 1

\* Counts the probes of the current run of the poll effect of each host.
ObservePoll(ev) ==
    /\ lastEvent' = ev
    /\ observed' =
         [k \in HostKeys |->
            [observed[k] EXCEPT
               !.issued = IF Issues(k) THEN (IF ev = "tick" THEN @ + 1 ELSE 1)
                          ELSE IF items'[k].timers = {} THEN 0
                          ELSE @,
               !.since = IF ev # "tick" /\ Issues(k) THEN now' ELSE @]]

\* The step settles an invocation of host k.
Settles(k) == Len(items'[k].inflight) = Len(items[k].inflight) - 1

\* Counts the settled invocations of each host and notes the restarts of
\* its poll effect.
ObserveHistory(ev) ==
    /\ lastEvent' = ev
    /\ observed' =
         [k \in HostKeys |->
            [observed[k] EXCEPT
               !.settled = IF Settles(k) THEN @ + 1 ELSE @,
               !.steady = @ /\ (ev = "tick" \/ ~Issues(k)),
               !.fixed = @ /\ pingIntervalMs' = pingIntervalMs]]

\* ------------------------------------- SpecCap: maxHistoryPoints on its own
InitCap ==
    /\ capIn \in 0..MaxIntervalInput
    /\ InitWith(Null, FALSE, FALSE, <<GoogleDns>>)

NextCap == ComputeCap

SpecCap == InitCap /\ [][NextCap]_vars

\* C2: for every interval I >= 250 the cap is floor(60000 / I) clamped to
\* 18..100: it lies in 18..100, it is the largest n with n * I <= 60000
\* unless a clamp applies, and 2000 gives 30, 250 gives 100, 5000 gives 18.
C2_CapIsClampedFloor ==
    (capOut # Null /\ capIn >= 250) =>
        /\ capOut \in 18..100
        /\ capOut * capIn <= 60000 \/ capOut = 18
        /\ (capOut + 1) * capIn > 60000 \/ capOut = 100
        /\ capIn = 2000 => capOut = 30
        /\ capIn = 250 => capOut = 100
        /\ capIn = 5000 => capOut = 18

\* The cap of an interval that no clamp applies to has been computed.
C2_Witness == capIn = 2001 /\ capOut = 29

\* ------------------------------------------- Spec: the alerts of one host
\* One host, performance optimization on (no history is kept), a stored
\* interval of 20 s. The clock moves in steps of one interval, and every
\* invocation settles before the clock moves.
AlertInterval == 10 * DefaultPingIntervalMs
AlertOutcomes ==
    {PermissionError, OtherError, Alive(pingAlertThresholdMs * TenthsPerMs),
     Alive(pingAlertThresholdMs * TenthsPerMs + 4)}
AlertPages == {"ping", "log"}

Settled == \A k \in HostKeys : items[k].inflight = <<>>

Init ==
    /\ InitWith(AlertInterval, TRUE, FALSE, <<GoogleDns>>)
    /\ capIn = pingIntervalMs

SpecBound == Bounded(MaxLogLen, 0, MaxClockSteps * AlertInterval)

Next ==
    \/ \E k \in HostKeys, i \in 1..MaxInFlight, o \in AlertOutcomes :
            ResultArrives(k, i, o) /\ SpecBound /\ UNCHANGED obsVars
    \/ \E k \in HostKeys : \E tm \in items[k].timers :
            TimerFires(k, tm) /\ SpecBound /\ UNCHANGED obsVars
    \/ Settled /\ AdvanceClock(AlertInterval) /\ SpecBound /\ UNCHANGED obsVars
    \/ \E k \in HostKeys :
            handleToggleHostPause(k) /\ SpecBound /\ UNCHANGED obsVars
    \/ ToggleEditMode /\ SpecBound /\ UNCHANGED obsVars
    \/ \E page \in AlertPages :
            setCurrentPage(page) /\ SpecBound /\ UNCHANGED obsVars

Spec == Init /\ [][Next]_vars

\* ------------------------------------------------- the alerts: C4 .. C8
\* pd is an error other than permission-denied and the paused placeholder.
AlertableFailure(pd) ==
    pd.hasError /\ pd.errorKind \notin {"none", "permission", "paused"}

\* The step settles an invocation of host k that its poll effect still owns.
ResultStep(k) ==
    \E i \in 1..Len(items[k].inflight) :
        /\ ~items[k].inflight[i].cancelled
        /\ items'[k].inflight = RemoveAt(items[k].inflight, i)

\* C4: two alert entries of one host are never less than 60,000 ms apart.
C4_AlertsSixtySecondsApart ==
    \A i, j \in 1..Len(logEntries) :
        (i < j /\ logEntries[i].host = logEntries[j].host)
            => logEntries[i].time - logEntries[j].time >= 60000

\* C5: every poll result that is an alertable failure, outside edit mode and
\* at least 60,000 ms after the host's last alert, emits a failure alert and
\* resets the cooldown timestamp.
C5_EveryQualifyingResultAlerts ==
    [][\A k \in HostKeys :
          (/\ ResultStep(k)
           /\ ~isEditMode
           /\ AlertableFailure(items'[k].pingData)
           /\ now - items[k].lastAlertRef >= 60000)
          => (/\ Len(items'[k].emitted) = 1
              /\ items'[k].emitted[1].title = "logPingAlert"
              /\ logEntries' = <<items'[k].emitted[1]>> \o logEntries
              /\ items'[k].lastAlertRef = now)]_vars

\* C6: a step emits at most one entry per host; when the status is an
\* alertable failure the entry is the failure alert; a high-latency alert
\* needs a status that is no error, a round-trip time strictly above 250 ms
\* and an elapsed cooldown; a time of 250 ms or less emits nothing.
C6_OneRulePerEvaluation ==
    [][/\ Len(logEntries') <=
            Len(logEntries) + Cardinality({k \in HostKeys : items'[k].emitted # <<>>})
       /\ \A k \in HostKeys :
          LET e == items'[k].emitted
              pd == items'[k].pingData
          IN  /\ Len(e) <= 1
              /\ (e # <<>> /\ AlertableFailure(pd)) => e[1].title = "logPingAlert"
              /\ (e # <<>> /\ e[1].title = "logPingHighLatency") =>
                    /\ ~pd.hasError
                    /\ pd.timeMs # Null
                    /\ pd.timeMs > 250 * TenthsPerMs
                    /\ now' - items[k].lastAlertRef >= 60000
              /\ (pd.timeMs # Null /\ pd.timeMs <= 250 * TenthsPerMs) => e = <<>>]_vars

\* A result of 250.4 ms has emitted a high-latency alert.
C6_Witness ==
    \E k \in HostKeys :
        /\ items[k].pingData.timeMs = 250 * TenthsPerMs + 4
        /\ Len(items[k].emitted) = 1
        /\ items[k].emitted[1].title = "logPingHighLatency"
        /\ logEntries # <<>> /\ logEntries[1] = items[k].emitted[1]

\* C7: a step that leaves a host showing permission-denied or the paused
\* placeholder emits no entry for it and leaves its cooldown timestamp
\* alone, and no entry of the log carries either status.
C7_PermissionAndPausedNeverAlert ==
    [][/\ \A k \in HostKeys :
            (items'[k].mounted
             /\ items'[k].pingData.errorKind \in {"permission", "paused"})
            => (/\ items'[k].emitted = <<>>
                /\ items'[k].lastAlertRef = items[k].lastAlertRef)
       /\ \A i \in 1..Len(logEntries') :
            \A persian \in BOOLEAN :
                logEntries'[i].status.text \notin
                    {statusTexts(persian).needAdmin, statusTexts(persian).paused}]_vars

\* A permission-denied result has been evaluated outside edit mode with the
\* cooldown elapsed, after an earlier alert of the host.
C7_Witness ==
    \E k \in HostKeys :
        /\ items[k].mounted /\ ~isEditMode
        /\ items[k].pingData.errorKind = "permission"
        /\ items[k].lastAlertRef > 0
        /\ now - items[k].lastAlertRef >= 60000

\* C8: while edit mode is on no entry is emitted and no cooldown timestamp
\* of a mounted host changes; a step that turns edit mode on or off emits no
\* entry.
C8_EditModeIsSilent ==
    [][/\ (isEditMode /\ isEditMode') =>
            \A k \in HostKeys :
                /\ items'[k].emitted = <<>>
                /\ (items[k].mounted /\ items'[k].mounted)
                        => items'[k].lastAlertRef = items[k].lastAlertRef
       /\ (isEditMode # isEditMode') =>
            /\ \A k \in HostKeys : items'[k].emitted = <<>>
            /\ logEntries' = logEntries]_vars

\* --------------------------------------- SpecPause: pausing and resuming
\* One host, history kept, a stored interval of 20 s; the outcomes are the
\* ones that raise no alert. An invocation may settle at any later time.
PauseOutcomes == {PermissionError, Alive(30 * TenthsPerMs)}

InitPause ==
    /\ InitWith(AlertInterval, FALSE, FALSE, <<GoogleDns>>)
    /\ capIn = pingIntervalMs

PauseBound == Bounded(0, MaxSamples, MaxClockSteps * AlertInterval)

ResultEvent(k, i) == IF items[k].inflight[i].cancelled THEN "discard" ELSE "result"

NextPause ==
    \/ \E k \in HostKeys, i \in 1..MaxInFlight, o \in PauseOutcomes :
            ResultArrives(k, i, o) /\ PauseBound /\ ObservePoll(ResultEvent(k, i))
    \/ \E k \in HostKeys : \E tm \in items[k].timers :
            TimerFires(k, tm) /\ PauseBound /\ ObservePoll("tick")
    \/ AdvanceClock(AlertInterval) /\ PauseBound /\ ObservePoll("clock")
    \/ \E k \in HostKeys :
            /\ handleToggleHostPause(k) /\ PauseBound
            /\ ObservePoll(IF isPaused(Cur, k) THEN "resume" ELSE "pause")
    \/ ToggleEditMode /\ PauseBound /\ ObservePoll("edit")
    \/ \E page \in AlertPages :
            setCurrentPage(page) /\ PauseBound /\ ObservePoll("navigate")

SpecPause == InitPause /\ [][NextPause]_vars

\* The poll effect of host k is stopped: the host is paused, edit mode is
\* on, or its card is not rendered.
Stopped(k) == ~IsRendered(Cur, k) \/ ~shouldPollPing(Cur, k)

\* The step settles an invocation of host k whose poll effect was cleaned up.
DiscardStep(k) ==
    \E i \in 1..Len(items[k].inflight) :
        /\ items[k].inflight[i].cancelled
        /\ items'[k].inflight = RemoveAt(items[k].inflight, i)

\* C9: stopping the poll of a host leaves it without a timer and disowns
\* every invocation in flight; the result of a disowned invocation changes
\* neither the status nor the history, creates no timer and issues nothing;
\* while the poll stays stopped no probe is issued.
C9_StoppedPollDiscardsResults ==
    [][\A k \in HostKeys : InList(allHosts, k) =>
          /\ Stopped(k)' =>
                /\ items'[k].timers = {}
                /\ \A i \in 1..Len(items'[k].inflight) : items'[k].inflight[i].cancelled
          /\ DiscardStep(k) =>
                /\ items'[k].pingData = items[k].pingData
                /\ items'[k].history = items[k].history
                /\ items'[k].timers = items[k].timers
                /\ logEntries' = logEntries
          /\ (Stopped(k) /\ Stopped(k)') => ~Issues(k)]_vars

\* The result of a probe that was in flight when the host was paused has
\* arrived while the host, with samples in its history, is still paused.
C9_Witness ==
    \E k \in HostKeys :
        /\ lastEvent = "discard"
        /\ items[k].mounted /\ isPaused(Cur, k)
        /\ items[k].pingData.errorKind = "paused"
        /\ items[k].history # <<>>
        /\ items[k].inflight = <<>>

\* C10: a paused host has no timer and no probe is issued for it; a resume
\* issues exactly one probe and starts exactly one timer, due one interval
\* later; a tick issues exactly one probe; the probes issued since the poll
\* started are one plus one per elapsed interval, whatever came before.
C10_ResumeStartsAFreshTimer ==
    /\ [](\A k \in HostKeys : (InList(allHosts, k) /\ ~Stopped(k)) =>
            /\ Cardinality(items[k].timers) = 1
            /\ \A tm \in items[k].timers :
                  /\ tm.deadline = observed[k].since + observed[k].issued * pingIntervalMs
                  /\ now <= tm.deadline /\ tm.deadline <= now + pingIntervalMs)
    /\ [][\A k \in HostKeys : InList(allHosts, k) =>
            /\ isPaused(Cur, k)' => (items'[k].timers = {} /\ ~Issues(k))
            /\ (isPaused(Cur, k) /\ ~Stopped(k)') =>
                  /\ Issues(k)
                  /\ ~items'[k].inflight[Len(items'[k].inflight)].cancelled
                  /\ \A i \in 1..Len(items[k].inflight) : items'[k].inflight[i].cancelled
                  /\ Cardinality(items'[k].timers) = 1
                  /\ \A tm \in items'[k].timers : tm.deadline = now' + pingIntervalMs'
            /\ lastEvent' = "tick" =>
                  (Issues(k) /\ Cardinality(items'[k].timers) = 1)]_vars

\* A host paused for two intervals or more has just been resumed: one probe
\* is in flight and one timer is due one interval from now.
C10_Witness ==
    \E k \in HostKeys :
        /\ lastEvent = "resume"
        /\ now >= StartTime + 2 * AlertInterval
        /\ items[k].pingData.errorKind = "paused"
        /\ observed[k].issued = 1 /\ observed[k].since = now
        /\ Len(items[k].inflight) = 1
        /\ \E tm \in items[k].timers : tm.deadline = now + pingIntervalMs

\* -------------------------------- SpecHook: the history of one usePing
\* usePing of one host, history kept, as its caller may drive it: the
\* interval it is given may change while it is mounted, and so may the
\* status texts. (App itself changes the interval from the settings page
\* only, where no card is mounted.) A run changes the interval at most once
\* and the locale at most once; only the first MaxSamples invocations to
\* settle may fail, and the locale changes before they have settled. A live
\* host reports a time that grows with the clock; the clock moves from one
\* timer deadline to the next once every invocation has settled.
HookIntervals == {3000, 4000}
HookChoices == HookIntervals \cup {0}

Early == \A k \in HostKeys : observed[k].settled < MaxSamples

HookOutcomes ==
    {Alive(7 + (now - StartTime) \div 100)}
        \cup (IF Early THEN {Rejected, OtherError, NoReply} ELSE {})

InitHook ==
    /\ \E si \in HookIntervals : InitWith(si, FALSE, FALSE, <<GoogleDns>>)
    /\ capIn = pingIntervalMs

HookBound ==
    /\ Bounded(MaxLogLen, MaxHistoryPoints, MaxClockSteps * AlertInterval)
    /\ \A k \in HostKeys : observed'[k].settled <= MaxResults

ShrinkEvent ==
    IF \E k \in HostKeys : Len(items'[k].history) < Len(items[k].history)
    THEN "trim" ELSE "init"

NextHook ==
    \/ \E k \in HostKeys, i \in 1..MaxInFlight, o \in HookOutcomes :
            /\ ResultArrives(k, i, o)
            /\ ObserveHistory("init") /\ HookBound
    \/ \E k \in HostKeys : \E tm \in items[k].timers :
            TimerFires(k, tm) /\ ObserveHistory("tick") /\ HookBound
    \/ \E k \in HostKeys : \E tm \in items[k].timers :
            /\ Settled
            /\ AdvanceClock(tm.deadline - now)
            /\ ObserveHistory("init") /\ HookBound
    \/ \E value \in HookChoices :
            /\ \A k \in HostKeys : observed[k].fixed
            /\ handlePingIntervalChange(value)
            /\ ObserveHistory(ShrinkEvent) /\ HookBound
    \/ /\ Early /\ ~isPersian
       /\ toggleLocale /\ ObserveHistory("init") /\ HookBound

SpecHook == InitHook /\ [][NextHook]_vars

\* ------------------------------------------------- the history: C1, C3
\* C1 as stated: with polling enabled throughout, history kept and the
\* interval fixed, the history holds min(N, cap) samples once N invocations
\* have settled.
C1_EveryTickAddsOneSample ==
    \A k \in HostKeys : (InList(allHosts, k) /\ observed[k].fixed) =>
        Len(items[k].history) =
            Min(observed[k].settled, maxHistoryPoints(pingIntervalMs))

\* C1, amended: the same while the poll effect has not been restarted (no
\* change of interval or locale): the history holds min(N, cap) samples;
\* every result appends one sample, the time of a live reply and null
\* otherwise, and drops the oldest beyond cap; the length never exceeds cap.
C1_EverySteadyTickAddsOneSample ==
    /\ [](\A k \in HostKeys : InList(allHosts, k) =>
            /\ Len(items[k].history) <= maxHistoryPoints(pingIntervalMs)
            /\ observed[k].steady =>
                  Len(items[k].history) =
                      Min(observed[k].settled, maxHistoryPoints(pingIntervalMs)))
    /\ [][\A k \in HostKeys : ResultStep(k) =>
            LET pd == items'[k].pingData
                sample == IF pd.hasError THEN Null ELSE pd.timeMs
                all == Append(items[k].history, sample)
                cap == maxHistoryPoints(pingIntervalMs)
            IN  /\ ~pd.hasError => sample # Null
                /\ items'[k].history =
                      IF Len(all) > cap THEN SubSeq(all, Len(all) - cap + 1, Len(all))
                      ELSE all]_vars

\* Twenty-one results have arrived at a steady poller of cap 20, the second
\* of them a failure: the history holds the last twenty, a null first.
C1_Witness ==
    \E k \in HostKeys :
        /\ observed[k].steady /\ observed[k].settled = 21
        /\ pingIntervalMs = 3000
        /\ Len(items[k].history) = 20
        /\ items[k].history[1] = Null
        /\ items[k].history[20] # Null

\* C3: a change of the interval leaves the history as it was when the new
\* cap is not smaller than its length, and otherwise leaves exactly the
\* newest cap samples, in their order.
C3_IntervalChangeKeepsNewest ==
    [][\A k \in HostKeys :
          (items[k].mounted /\ items'[k].mounted /\ pingIntervalMs' # pingIntervalMs) =>
            LET old == items[k].history
                cap == maxHistoryPoints(pingIntervalMs')
            IN  items'[k].history =
                  IF cap < Len(old) THEN SubSeq(old, Len(old) - cap + 1, Len(old))
                  ELSE old]_vars

\* A change of the interval from 3 s to 4 s has cut a longer history down to
\* the 18 samples of the new cap.
C3_Witness ==
    \E k \in HostKeys :
        /\ lastEvent = "trim"
        /\ pingIntervalMs = 4000
        /\ Len(items[k].history) = 18
        /\ items[k].history[18] # Null

\* ------------------------------------------- SpecSpeed: the speed test, C11
\* The user moves between the speed page and the log page, starts and stops
\* runs; every run settles with any outcome at any later time.
SpeedPages == {"speed", "log"}

InitSpeed ==
    /\ InitWith(Null, FALSE, FALSE, <<GoogleDns>>)
    /\ capIn = pingIntervalMs

SpeedBound == Bounded(MaxLogLen, 0, MaxClockSteps * SPEED_PHASE_DOWNLOAD_DELAY_MS)

NextSpeed ==
    \/ \E page \in SpeedPages :
            setCurrentPage(page) /\ SpeedBound /\ UNCHANGED obsVars
    \/ handleStartSpeed /\ SpeedBound /\ UNCHANGED obsVars
    \/ handleStopSpeed /\ SpeedBound /\ UNCHANGED obsVars
    \/ \E tm \in speed.timers :
            SpeedPhaseTimeout(tm) /\ SpeedBound /\ UNCHANGED obsVars
    \/ \E run \in speed.inflight, o \in SpeedOutcomes :
            SpeedResponse(run, o) /\ SpeedBound /\ UNCHANGED obsVars
    \/ AdvanceClock(SPEED_PHASE_DOWNLOAD_DELAY_MS) /\ SpeedBound
            /\ UNCHANGED obsVars

SpecSpeed == InitSpeed /\ [][NextSpeed]_vars

\* The runs the step settles, and those of them a newer run has superseded.
SettledRuns == speed.inflight \ speed'.inflight
StaleRuns == {run \in SettledRuns : run.requestId # speed.id}

\* C11: a response of the speed-test command that settles after the request
\* counter has advanced past its run (a result, an error result or a
\* rejection) is discarded entirely: the step changes none of speedMetrics,
\* speedStarted, speedLoading and speedPhase, cancels no phase timer of the
\* newer run and adds no log entry; and the counter never decreases.
C11_StaleResponseIsDiscarded ==
    [][/\ StaleRuns # {} =>
            /\ speed'.metrics = speed.metrics
            /\ speed'.started = speed.started
            /\ speed'.loading = speed.loading
            /\ speed'.phase = speed.phase
            /\ speed'.timers = speed.timers
            /\ logEntries' = logEntries
       /\ speed'.id >= speed.id]_vars

\* ------------------------------------- SpecDns: the DNS operations, C12
\* The user opens the DNS page, types a domain and a batch, and calls the
\* three operations in any order, also while one is running; each check
\* settles with any outcome at any later time.
ObserveEvent(ev) == lastEvent' = ev /\ UNCHANGED observed

PlainDomain == <<"a", ".", "i", "o">>
BlankDomain == <<" ">>
DomainInputs == {PlainDomain, BlankDomain}
BatchInputs == {<<PlainDomain, BlankDomain>>, <<BlankDomain>>}
DnsPages == {"dns", "log"}
RoundInputs == {Rounds(1), Rounds(2)}
DnsStarts == {"handleDnsTest", "handleDnsBenchmark", "handleBatchDomains"}
DnsOutcomes ==
    {DnsRejected, DnsOutcome(FALSE, "", <<DnsResult("8.8.8.8", TRUE, 12)>>)}

InitDns ==
    /\ InitWith(Null, FALSE, FALSE, <<GoogleDns>>)
    /\ capIn = pingIntervalMs

DnsBound == Bounded(MaxLogLen, 0, 0)

NextDns ==
    \/ \E page \in DnsPages :
            setCurrentPage(page) /\ DnsBound /\ ObserveEvent("setCurrentPage")
    \/ \E value \in DomainInputs :
            setDnsDomain(value) /\ DnsBound /\ ObserveEvent("setDnsDomain")
    \/ \E lines \in BatchInputs :
            setBatchDomainsInput(lines) /\ DnsBound
                /\ ObserveEvent("setBatchDomainsInput")
    \/ \E value \in {0} \cup RoundInputs :
            handleBenchmarkRoundsChange(value) /\ DnsBound
                /\ ObserveEvent("handleBenchmarkRoundsChange")
    \/ handleDnsTest /\ DnsBound /\ ObserveEvent("handleDnsTest")
    \/ handleDnsBenchmark /\ DnsBound /\ ObserveEvent("handleDnsBenchmark")
    \/ handleBatchDomains /\ DnsBound /\ ObserveEvent("handleBatchDomains")
    \/ \E i \in 1..MaxInFlight, o \in DnsOutcomes :
            DnsResponse(i, o) /\ DnsBound /\ ObserveEvent("DnsResponse")

SpecDns == InitDns /\ [][NextDns]_vars

\* C12: at most one DNS operation is in flight at any time, and a call of
\* handleDnsTest, handleDnsBenchmark or handleBatchDomains made while one of
\* them is running is rejected: it issues no DNS check, queues nothing and
\* changes no result, statistic or error (nothing of the DNS page, nor the
\* log).
C12_OneDnsOperationAtATime ==
    /\ [](Len(dns.ops) <= 1)
    /\ [][lastEvent' \in DnsStarts /\ dns.ops # <<>> =>
            dns' = dns /\ logEntries' = logEntries]_vars

\* handleDnsTest has been called while a benchmark was awaiting its check.
C12_Witness ==
    /\ lastEvent = "handleDnsTest"
    /\ Len(dns.ops) = 1
    /\ dns.ops[1].kind = "benchmark"
    /\ dns.dnsBenchmarkLoading
    /\ ~dns.dnsLoading

\* ------------------------------- SpecBench: the DNS benchmark, C13 and C14
\* The user opens the DNS page, types a domain, sets the rounds and runs
\* benchmarks; in every round each of three servers fails or answers in one
\* of a few latencies, or the check itself fails.
ServerAnswers(server) ==
    {DnsResult(server, FALSE, Null), DnsResult(server, TRUE, 10)}
        \cup (IF server = "9.9.9.9" THEN {}
              ELSE {DnsResult(server, TRUE, 30)})
BenchResponses ==
    {DnsOutcome(FALSE, "", <<a, b, c>>) :
        a \in ServerAnswers("8.8.8.8"), b \in ServerAnswers("1.1.1.1"),
        c \in ServerAnswers("9.9.9.9")}
BenchFailures == {DnsRejected, DnsError}

InitBench ==
    /\ InitWith(Null, FALSE, FALSE, <<GoogleDns>>)
    /\ capIn = pingIntervalMs

\* A benchmark is started only if the entry it logs fits the log bound.
BenchBound == Bounded(MaxLogLen - 1, 0, 0)

NextBench ==
    \/ setCurrentPage("dns") /\ BenchBound /\ ObserveEvent("setCurrentPage")
    \/ setDnsDomain(PlainDomain) /\ BenchBound /\ ObserveEvent("setDnsDomain")
    \/ \E value \in RoundInputs :
            handleBenchmarkRoundsChange(value) /\ BenchBound
                /\ ObserveEvent("handleBenchmarkRoundsChange")
    \/ /\ dns.dnsBenchmarkRounds \in RoundInputs
       /\ Len(logEntries) < MaxLogLen - 1
       /\ handleDnsBenchmark /\ BenchBound /\ ObserveEvent("handleDnsBenchmark")
    \/ \E o \in BenchResponses :
            DnsResponse(1, o) /\ BenchBound /\ ObserveEvent("DnsResponse")
    \/ \E o \in BenchFailures :
            DnsResponse(1, o) /\ BenchBound /\ ObserveEvent("DnsFailure")

SpecBench == InitBench /\ [][NextBench]_vars

\* The results of all rounds of the benchmark that completes in this step.
AllRounds == Append(dns.ops[1].responses, dns'.dnsResults)

\* The latency server contributes in a round (0 when it failed), whether it
\* succeeded, and both summed over a sequence of rounds.
RoundLatency(results, server) ==
    LET hit == {i \in 1..Len(results) : results[i].server = server /\ results[i].status}
    IN  IF hit = {} THEN 0 ELSE results[CHOOSE i \in hit : TRUE].responseTimeMs

RoundSuccess(results, server) ==
    IF \E i \in 1..Len(results) : results[i].server = server /\ results[i].status
    THEN 1 ELSE 0

RECURSIVE LatencySum(_, _)
LatencySum(rounds, server) ==
    IF rounds = <<>> THEN 0
    ELSE RoundLatency(Head(rounds), server) + LatencySum(Tail(rounds), server)

RECURSIVE Successes(_, _)
Successes(rounds, server) ==
    IF rounds = <<>> THEN 0
    ELSE RoundSuccess(Head(rounds), server) + Successes(Tail(rounds), server)

\* The step completes a benchmark: its last round has returned results.
BenchmarkCompletes ==
    /\ lastEvent' = "DnsResponse"
    /\ dns.ops # <<>>
    /\ dns.ops[1].kind = "benchmark"
    /\ dns'.ops = <<>>

\* C13: when a benchmark completes all its rounds, the published average of
\* each server is the sum of its latencies over its successful rounds
\* divided by the number of those rounds, the ranking is ascending by that
\* average, and a server with no successful round is ranked after every
\* server with one.
C13_AveragesAndRanking ==
    [][BenchmarkCompletes =>
        LET stats == dns'.dnsBenchmarkStats
            sum(i) == LatencySum(AllRounds, stats[i].server)
            n(i) == Successes(AllRounds, stats[i].server)
        IN  /\ \A i \in 1..Len(stats) :
                n(i) > 0 =>
                    /\ stats[i].averageMs.n # 0
                    /\ stats[i].averageMs.sum * n(i) = sum(i) * stats[i].averageMs.n
            /\ \A i, j \in 1..Len(stats) :
                i < j =>
                    /\ n(i) > 0 /\ n(j) > 0 => sum(i) * n(j) <= sum(j) * n(i)
                    /\ n(i) = 0 => n(j) = 0]_vars

\* A benchmark of two rounds has completed: one server answered in both
\* rounds, one in one round only, one in none, and they are ranked so.
C13_Witness ==
    /\ lastEvent = "DnsResponse"
    /\ dns.ops = <<>>
    /\ Len(dns.dnsBenchmarkStats) = 3
    /\ dns.dnsBenchmarkStats[1].averageMs.n = 2
    /\ dns.dnsBenchmarkStats[2].averageMs.n = 1
    /\ dns.dnsBenchmarkStats[2].successRate = 50
    /\ dns.dnsBenchmarkStats[3].averageMs.n = 0
    /\ Minus(dns.dnsBenchmarkStats[1].averageMs, dns.dnsBenchmarkStats[2].averageMs) < 0

\* C14: when the check of a benchmark round fails (the command rejects or
\* answers with an error), the benchmark aborts: no further round is run,
\* the published statistics are empty, one error is reported with exactly
\* one failure entry added to the log, and no busy flag stays set.
C14_FailedRoundAbortsBenchmark ==
    [][lastEvent' = "DnsFailure" /\ dns.ops # <<>> /\ dns.ops[1].kind = "benchmark" =>
        /\ dns'.ops = <<>>
        /\ dns'.dnsBenchmarkStats = <<>>
        /\ dns'.dnsError = "dnsBenchmarkFailed"
        /\ Len(logEntries') = Len(logEntries) + 1
        /\ logEntries'[1].title = "logDnsFailed"
        /\ ~Busy(dns')]_vars

\* The second round of a benchmark has failed.
C14_Witness ==
    /\ lastEvent = "DnsFailure"
    /\ dns.dnsBenchmarkRounds = Rounds(2)
    /\ dns.dnsError = "dnsBenchmarkFailed"
    /\ dns.dnsBenchmarkStats = <<>>
    /\ dns.ops = <<>>
    /\ Len(logEntries) = 1

\* ---------------------------------- SpecBatch: the batch check, C15 and C16
\* The user pastes one of a few texts into the batch field and runs the
\* batch; each check finds a usable server, finds none, or fails. The checks
\* of the long batch all find a usable server.
YoutubeCom == <<"y", "o", "u", "t", "u", "b", "e", ".", "c", "o", "m">>
InvalidDots == <<"i", "n", "v", "a", "l", "i", "d", ".", ".">>
UrlLine == <<"h", "t", "t", "p", "s", ":", "/", "/", "y", "o", "u", "t", "u", "b", "e", ".", "c", "o", "m", "/", "w", "a", "t", "c", "h">>
OddLine == <<"h", "t", "t", "p", ":", "/", "/", " ", "/", "x">>
Label(i) == <<"d", Digits[(i \div 10) + 1], Digits[(i % 10) + 1]>>

ExampleBatch == <<YoutubeCom, YoutubeCom, <<>>, InvalidDots, <<>>>>
UrlBatch == <<UrlLine, YoutubeCom>>
OddBatch == <<OddLine, YoutubeCom>>
LongBatch == [i \in 1..(BatchLimit + 2) |-> Label(i)]
BatchTexts == {ExampleBatch, UrlBatch, OddBatch, LongBatch}

UsableResponse == DnsOutcome(FALSE, "", <<DnsResult("8.8.8.8", FALSE, Null),
                                          DnsResult("1.1.1.1", TRUE, 10)>>)
BlockedResponse == DnsOutcome(FALSE, "", <<DnsResult("8.8.8.8", FALSE, Null),
                                           DnsResult("1.1.1.1", FALSE, Null)>>)
LongRun == dns.ops # <<>> /\ Len(dns.ops[1].domains) > Len(ExampleBatch)

InitBatch ==
    /\ InitWith(Null, FALSE, FALSE, <<GoogleDns>>)
    /\ capIn = pingIntervalMs

NextBatch ==
    \/ setCurrentPage("dns") /\ BenchBound /\ ObserveEvent("setCurrentPage")
    \/ \E lines \in BatchTexts :
            setBatchDomainsInput(lines) /\ BenchBound
                /\ ObserveEvent("setBatchDomainsInput")
    \/ /\ Len(logEntries) < MaxLogLen - 1
       /\ handleBatchDomains /\ BenchBound /\ ObserveEvent("handleBatchDomains")
    \/ DnsResponse(1, UsableResponse) /\ BenchBound /\ ObserveEvent("DnsUsable")
    \/ ~LongRun /\ DnsResponse(1, BlockedResponse) /\ BenchBound
            /\ ObserveEvent("DnsBlocked")
    \/ ~LongRun /\ DnsResponse(1, DnsRejected) /\ BenchBound
            /\ ObserveEvent("DnsFailure")
    \/ DnsReturnsInvalid(1) /\ BenchBound /\ ObserveEvent("DnsReturnsInvalid")

SpecBatch == InitBatch /\ [][NextBatch]_vars

\* The step starts a batch; the step is the return of a check to a batch.
BatchStarts == lastEvent' = "handleBatchDomains" /\ dns.ops = <<>> /\ dns'.ops # <<>>
BatchCheckReturns == dns.ops # <<>> /\ dns.ops[1].kind = "batch" /\ dns' # dns

\* The sanitized lines of the batch field, and the line domain comes from.
SanitizedLines ==
    [i \in 1..Len(dns.batchDomainsInput) |-> sanitizeDomain(dns.batchDomainsInput[i])]
FirstLineOf(domain) ==
    MinOf({i \in 1..Len(SanitizedLines) : SanitizedLines[i] = domain})

\* C15 (a): the list a batch runs holds no empty entry, no entry twice and at
\* most 30 entries, which are the sanitized lines in the order of their
\* first occurrence.
BatchListIsClean ==
    BatchStarts =>
        LET list == dns'.ops[1].domains
        IN  /\ Len(list) <= BatchLimit
            /\ \A i \in 1..Len(list) :
                /\ list[i] # <<>>
                /\ \E l \in 1..Len(SanitizedLines) : SanitizedLines[l] = list[i]
            /\ \A i, j \in 1..Len(list) :
                i < j => list[i] # list[j]
                         /\ FirstLineOf(list[i]) < FirstLineOf(list[j])
            /\ \A l \in 1..Len(SanitizedLines) :
                \/ SanitizedLines[l] = <<>>
                \/ \E i \in 1..Len(list) : list[i] = SanitizedLines[l]
                \/ Len(list) = BatchLimit

\* C15 (b): one check at a time, and when the batch ends it has issued
\* exactly one check per listed domain, in the order of the list.
BatchChecksEachDomain ==
    /\ \A i \in 1..Len(dns'.ops) : Len(dns'.ops[i].checked) <= Len(dns'.ops[i].results) + 1
    /\ BatchCheckReturns /\ dns'.ops = <<>> =>
            dns.ops[1].checked = dns.ops[1].domains

\* C15 (c): the result of the domain whose check returns says resolved
\* exactly if a server returned usable.
NewBatchResult ==
    IF dns'.ops = <<>> THEN dns'.batchResults[Len(dns'.batchResults)]
    ELSE dns'.ops[1].results[Len(dns'.ops[1].results)]
BatchClassifies ==
    BatchCheckReturns =>
        (NewBatchResult.status = "resolved" <=> lastEvent' = "DnsUsable")

\* C15: the list a batch runs has no empty entry, no duplicate and at most
\* 30 entries, in first-occurrence order of the sanitized lines; the batch
\* issues exactly one DNS check per listed domain, one after the other, and
\* classifies a domain as resolved exactly if a server returned usable.
C15_BatchChecksEachListedDomainOnce ==
    [][BatchListIsClean /\ BatchChecksEachDomain /\ BatchClassifies]_vars

\* C16 as claimed: the batch text of the example reduces to the single
\* entry youtube.com, the line that is not a well-formed domain being
\* dropped with the empty and the repeated line.
C16_ExampleReducesToOneEntry ==
    [][BatchStarts /\ dns.batchDomainsInput = ExampleBatch =>
            dns'.ops[1].domains = <<YoutubeCom>>]_vars

\* C16 as the code has it: the batch text of the example reduces to the
\* two entries youtube.com and invalid.., in this order: the empty and the
\* repeated line are dropped, the line that is not a well-formed domain is
\* kept.
C16_ExampleReducesToTwoEntries ==
    [][BatchStarts /\ dns.batchDomainsInput = ExampleBatch =>
            dns'.ops[1].domains = <<YoutubeCom, InvalidDots>>]_vars

\* The batch of the example has been started.
C16_Witness ==
    /\ lastEvent = "handleBatchDomains"
    /\ dns.batchDomainsInput = ExampleBatch
    /\ dns.batchLoading
    /\ Len(dns.ops) = 1
    /\ dns.ops[1].checked = <<YoutubeCom>>

\* --------------------------- SpecServers: the custom DNS servers, C17
\* The user opens the DNS page, types candidates into the custom server
\* field, adds them and removes servers of the list.
OneOneOneTwo == <<"1", ".", "1", ".", "1", ".", "2">>
NotAnIp == <<"n", "o", "t", "-", "a", "n", "-", "i", "p">>
PaddedQuad == <<" ", "8", ".", "8", ".", "4", ".", "4", " ">>
BigOctet == <<"2", "5", "6", ".", "1", ".", "1", ".", "1">>
TwoGroups == <<"1", ":", "2">>
Loopback6 == <<":", ":", "1">>
ServerInputs == {OneOneOneTwo, NotAnIp, PaddedQuad, BigOctet, TwoGroups, Loopback6}

\* The text representation of an IPv6 address: eight groups of one to four
\* hexadecimal digits separated by colons, where one run of zero groups may
\* be written "::" and the last two groups as an IPv4 dotted quad.
GroupCount(s) ==
    LET parts == Split(s, ":")
        last == parts[Len(parts)]
    IN  IF s = <<>> THEN 0
        ELSE IF \A i \in 1..(Len(parts) - 1) : IsHexGroup(parts[i])
             THEN (IF IsHexGroup(last) THEN Len(parts)
                   ELSE IF ipv4(last) THEN Len(parts) + 1
                   ELSE Null)
        ELSE Null

IsIPv6Literal(s) ==
    LET gaps == {k \in 1..(Len(s) - 1) : s[k] = ":" /\ s[k + 1] = ":"}
        k == CHOOSE i \in gaps : TRUE
        left == SubSeq(s, 1, k - 1)
        right == SubSeq(s, k + 2, Len(s))
    IN  IF gaps = {} THEN GroupCount(s) = IPv6Groups
        ELSE /\ Cardinality(gaps) = 1
             /\ GroupCount(left) # Null
             /\ \A i \in 1..Len(left) : left[i] # "."
             /\ GroupCount(right) # Null
             /\ GroupCount(left) + GroupCount(right) < IPv6Groups

IsIpLiteral(s) == ipv4(s) \/ IsIPv6Literal(s)

InitServers ==
    /\ InitWith(Null, FALSE, FALSE, <<GoogleDns>>)
    /\ capIn = pingIntervalMs

NextServers ==
    \/ setCurrentPage("dns") /\ DnsBound /\ ObserveEvent("setCurrentPage")
    \/ \E value \in ServerInputs :
            setCustomDnsInput(value) /\ DnsBound /\ ObserveEvent("setCustomDnsInput")
    \/ handleAddCustomDns /\ DnsBound /\ ObserveEvent("handleAddCustomDns")
    \/ \E i \in 1..Len(dns.customDnsServers) :
            handleRemoveCustomDns(dns.customDnsServers[i]) /\ DnsBound
                /\ ObserveEvent("handleRemoveCustomDns")

SpecServers == InitServers /\ [][NextServers]_vars

\* The step is a call of handleAddCustomDns that accepts the candidate.
AddSucceeds == lastEvent' = "handleAddCustomDns" /\ dns'.dnsError # "dnsCustomInvalid"

\* C17: adding a custom DNS server succeeds only if the trimmed candidate is
\* an IPv4 or IPv6 literal; 1.1.1.2 is accepted and appended; not-an-ip is
\* rejected, sets the invalid-DNS error and leaves the list of custom
\* servers and its persisted copy unchanged.
C17_OnlyIpLiteralsAreAdded ==
    [][/\ AddSucceeds => IsIpLiteral(trim(dns.customDnsInput))
       /\ lastEvent' = "handleAddCustomDns" /\ dns.customDnsInput = OneOneOneTwo
            /\ (\A i \in 1..Len(dns.customDnsServers) :
                    dns.customDnsServers[i] # OneOneOneTwo) =>
            /\ dns'.customDnsServers = Append(dns.customDnsServers, OneOneOneTwo)
            /\ localStorage'.customDnsServers = dns'.customDnsServers
            /\ dns'.dnsError = ""
       /\ lastEvent' = "handleAddCustomDns" /\ dns.customDnsInput = NotAnIp =>
            /\ dns'.dnsError = "dnsCustomInvalid"
            /\ dns'.customDnsServers = dns.customDnsServers
            /\ localStorage'.customDnsServers = localStorage.customDnsServers]_vars

Ethernet == [name |-> "Ethernet", dns |-> <<OneOneOneTwo, <<>>>>]
AdapterAnswers == {<<FALSE, <<Ethernet>>>>, <<FALSE, <<>>>>, <<TRUE, <<>>>>}
ManagerInputs == {NotAnIp, TwoGroups}
ApplyOutcomes == {"success", "failure"}
ToolModes == {"test", "manager"}

InitValidate ==
    /\ InitWith(Null, FALSE, FALSE, <<GoogleDns>>)
    /\ capIn = pingIntervalMs

\* At most one invocation of a system command is pending.
ValidateBound == BenchBound /\ Len(dns'.system) < MaxInFlight

\* The pages of the DNS tools with every input the validation is about:
\* one operation at a time is started, and the commands it waits for settle.
NextValidate ==
    \/ setCurrentPage("dns") /\ ValidateBound /\ ObserveEvent("setCurrentPage")
    \/ \E mode \in ToolModes :
            setDnsToolMode(mode) /\ ValidateBound /\ ObserveEvent("setDnsToolMode")
    \/ \E value \in DomainInputs :
            setDnsDomain(value) /\ ValidateBound /\ ObserveEvent("input")
    \/ setBatchDomainsInput(<<BlankDomain>>) /\ ValidateBound
            /\ ObserveEvent("input")
    \/ handleDnsTest /\ ValidateBound /\ ObserveEvent("handleDnsTest")
    \/ handleDnsBenchmark /\ ValidateBound /\ ObserveEvent("handleDnsBenchmark")
    \/ handleBatchDomains /\ ValidateBound /\ ObserveEvent("handleBatchDomains")
    \/ DnsResponse(1, DnsRejected) /\ ValidateBound /\ ObserveEvent("response")
    \/ \E value \in ManagerInputs :
            setCustomDnsInput(value) /\ ValidateBound /\ ObserveEvent("input")
    \/ handleAddCustomDns /\ ValidateBound /\ ObserveEvent("handleAddCustomDns")
    \/ \E value \in ManagerInputs :
            setDnsPrimaryInput(value) /\ ValidateBound /\ ObserveEvent("input")
    \/ setDnsSecondaryInput(NotAnIp) /\ ValidateBound
            /\ ObserveEvent("input")
    \/ handleApplySystemDns /\ ValidateBound /\ ObserveEvent("handleApplySystemDns")
    \/ \E answer \in AdapterAnswers :
            AdaptersResponse(answer[1], answer[2]) /\ ValidateBound
                /\ ObserveEvent("response")
    \/ \E o \in ApplyOutcomes :
            ApplyResponse(o) /\ ValidateBound /\ ObserveEvent("response")

SpecValidate == InitValidate /\ [][NextValidate]_vars

InvalidServer(value) == ~IsIpLiteral(trim(value))

\* The step is a call of a handler with an input that fails validation: a
\* domain that sanitizes to empty, a batch text with no usable line, or a
\* DNS server that is not an IP literal.
ValidationError ==
    \/ lastEvent' \in {"handleDnsTest", "handleDnsBenchmark"}
        /\ sanitizeDomain(dns.dnsDomain) = <<>>
    \/ lastEvent' = "handleBatchDomains"
        /\ \A i \in 1..Len(dns.batchDomainsInput) :
                sanitizeDomain(dns.batchDomainsInput[i]) = <<>>
    \/ lastEvent' = "handleAddCustomDns" /\ InvalidServer(dns.customDnsInput)
    \/ lastEvent' = "handleApplySystemDns"
        /\ \/ InvalidServer(dns.dnsPrimaryInput)
           \/ trim(dns.dnsSecondaryInput) # <<>> /\ InvalidServer(dns.dnsSecondaryInput)

\* The DNS tools apart from the two inline messages.
Silenced(d) == [d EXCEPT !.dnsError = "", !.dnsManagerStatus = ""]

InlineErrors == {"dnsInvalid", "dnsBatchInvalid", "dnsCustomInvalid"}

\* C18: a call with an input that fails validation (empty sanitized domain,
\* no usable batch line, invalid DNS server) issues no command, shows an
\* inline error unless an operation is already running, and changes no
\* result list, statistic, server list or log, in memory or persisted.
C18_ValidationErrorsChangeNothing ==
    [][ValidationError =>
            /\ Silenced(dns') = Silenced(dns)
            /\ logEntries' = logEntries
            /\ localStorage' = localStorage
            /\ ~Busy(dns) =>
                    \/ dns'.dnsError \in InlineErrors
                    \/ dns'.dnsManagerStatus \in InlineErrors]_vars

\* ------------------------------------------------ Spec: the log at its cap
\* The application starts with a stored log one entry short of the cap, the
\* entries written by earlier runs. Ping alerts, DNS tests and speed tests
\* then add entries in any order.
StoredEntry(i) ==
    AlertEntry("failure", GoogleDns, [status |-> TextStatus("Error")], FALSE,
               StartTime - i)
StoredLog == [i \in 1..(LogCap - 1) |-> StoredEntry(i)]
LogPages == {"ping", "dns", "speed"}
LogOutcomes == {OtherError, Alive(pingAlertThresholdMs * TenthsPerMs)}
LogSpeedOutcomes == {"result", "error"}

InitLog ==
    /\ InitWithLog(Null, TRUE, FALSE, <<GoogleDns>>, StoredLog)
    /\ capIn = pingIntervalMs

\* The entries added since the start.
Recent(log) == {i \in 1..Len(log) : log[i].time >= StartTime}

LogBound ==
    /\ Bounded(LogCap, 0, 0)
    /\ Cardinality(Recent(logEntries')) <= MaxLogLen + 1

NextLog ==
    \/ \E page \in LogPages :
            setCurrentPage(page) /\ LogBound /\ UNCHANGED obsVars
    \/ \E k \in HostKeys, i \in 1..MaxInFlight, o \in LogOutcomes :
            ResultArrives(k, i, o) /\ LogBound /\ UNCHANGED obsVars
    \/ setDnsDomain(PlainDomain) /\ LogBound /\ UNCHANGED obsVars
    \/ handleDnsTest /\ LogBound /\ UNCHANGED obsVars
    \/ \E o \in DnsOutcomes :
            DnsResponse(1, o) /\ LogBound /\ UNCHANGED obsVars
    \/ handleStartSpeed /\ LogBound /\ UNCHANGED obsVars
    \/ \E run \in speed.inflight, o \in LogSpeedOutcomes :
            SpeedResponse(run, o) /\ LogBound /\ UNCHANGED obsVars

SpecLog == InitLog /\ [][NextLog]_vars

\* The step adds one entry: it is the first of the new log, and the entries
\* of the old log follow it in their order, the oldest left out at the cap.
AddsOneEntry ==
    /\ Len(logEntries') = Min(Len(logEntries) + 1, LogCap)
    /\ logEntries'[1].time = now'
    /\ \A i \in 2..Len(logEntries') : logEntries'[i] = logEntries[i - 1]

\* C19: the log never holds more than 200 entries, the persisted copy
\* equals the list in memory, and every step that changes the log puts one
\* new entry in front of the entries it had, dropping only the oldest one
\* at the cap.
C19_LogKeepsTheNewestEntries ==
    /\ [](Len(logEntries) <= LogCap /\ localStorage.logEntries = logEntries)
    /\ [][logEntries' # logEntries => AddsOneEntry]_vars

\* An alert, a DNS test and a speed test have been logged, and two stored
\* entries have been dropped at the cap.
C19_Witness ==
    /\ Len(logEntries) = LogCap
    /\ {logEntries[i].type : i \in Recent(logEntries)} = {"alert", "dns", "speed"}
    /\ logEntries[LogCap] = StoredEntry(LogCap - Cardinality(Recent(logEntries)))

\* ------------------------------------------------- Spec: the host list
\* The two default hosts; a host is added, hosts are deleted, dragged,
\* pinned, unpinned and paused, and the probes of the cards settle.
InitHosts ==
    /\ InitWith(Null, TRUE, FALSE, <<GoogleDns, CloudflareDns>>)
    /\ capIn = pingIntervalMs

\* No alert is logged, and a card has at most one probe in flight.
HostsBound ==
    /\ Bounded(0, 0, 0)
    /\ \A k \in HostKeys : Len(items'[k].inflight) < MaxInFlight

NextHosts ==
    \/ handleSaveHost(Router.label, Router.host) /\ HostsBound
            /\ UNCHANGED obsVars
    \/ \E k \in HostKeys :
            handleDeleteHost(k) /\ HostsBound /\ UNCHANGED obsVars
    \/ \E k \in HostKeys :
            handleToggleHostPin(k) /\ HostsBound /\ UNCHANGED obsVars
    \/ \E k \in HostKeys :
            handleToggleHostPause(k) /\ HostsBound
                /\ UNCHANGED obsVars
    \/ \E activeId \in HostKeys, overId \in HostKeys :
            handleDragEnd(activeId, overId) /\ HostsBound
                /\ UNCHANGED obsVars
    \/ ToggleEditMode /\ HostsBound /\ UNCHANGED obsVars
    \/ \E k \in HostKeys, i \in 1..MaxInFlight :
            ResultArrives(k, i, Alive(TenthsPerMs)) /\ HostsBound
                /\ UNCHANGED obsVars

SpecHosts == InitHosts /\ [][NextHosts]_vars

\* C20: in every reachable state of the host list every pinned host
\* precedes every unpinned host.
C20_PinnedHostsPrecedeUnpinned ==
    \A i \in 1..Len(allHosts), j \in 1..Len(allHosts) :
        allHosts[i].pinned /\ ~allHosts[j].pinned => i < j

\* --------------------------------------------- Spec: the interval setting
\* One host, no stored interval. The interval is typed on the settings page
\* (every keystroke of the number input calls handlePingIntervalChange; its
\* min attribute does not keep a smaller number from being typed), and the
\* card polls on the ping page.
IntervalInputs == {0, MinSafeInterval \div 2, MinSafeInterval, DefaultPingIntervalMs}
IntervalPages == {"ping", "settings"}

InitInterval ==
    /\ InitWith(Null, TRUE, FALSE, <<GoogleDns>>)
    /\ capIn = pingIntervalMs

IntervalBound == Bounded(0, 0, MaxClockSteps * MinSafeInterval)

NextInterval ==
    \/ \E page \in IntervalPages :
            setCurrentPage(page) /\ IntervalBound /\ ObserveEvent("setCurrentPage")
    \/ \E value \in IntervalInputs :
            /\ currentPage = "settings"
            /\ handlePingIntervalChange(value)
            /\ IntervalBound /\ ObserveEvent("handlePingIntervalChange")
    \/ \E k \in HostKeys : \E tm \in items[k].timers :
            TimerFires(k, tm) /\ IntervalBound /\ ObserveEvent("TimerFires")
    \/ \E k \in HostKeys : \E tm \in items[k].timers :
            AdvanceClock(tm.deadline - now) /\ IntervalBound
                /\ ObserveEvent("AdvanceClock")
    \/ \E k \in HostKeys, i \in 1..MaxInFlight :
            ResultArrives(k, i, Alive(TenthsPerMs)) /\ IntervalBound
                /\ ObserveEvent("ResultArrives")

SpecInterval == InitInterval /\ [][NextInterval]_vars

\* C21: the interval of every poll timer is at least 250 ms.
C21_PollIntervalAtLeastMinimum ==
    \A k \in HostKeys : \A tm \in items[k].timers : tm.interval >= MinSafeInterval

\* ------------------------------------------------ Spec: the probe outcomes
\* One host polled every 20 s; the invocation of a probe settles with each
\* kind of outcome, and the host is paused and resumed so that results of
\* cancelled probes arrive as well.
ProbeOutcomes ==
    [rejected |-> Rejected, permission |-> PermissionError, failed |-> OtherError,
     silent |-> NoReply, alive |-> Alive(30 * TenthsPerMs)]

InitProbe ==
    /\ InitWith(AlertInterval, TRUE, FALSE, <<GoogleDns>>)
    /\ capIn = pingIntervalMs

\* A result is observed under the name of its outcome, or as "discard" when
\* its probe was cancelled.
NextProbe ==
    \/ \E k \in HostKeys, i \in 1..MaxInFlight, name \in DOMAIN ProbeOutcomes :
            /\ ResultArrives(k, i, ProbeOutcomes[name]) /\ SpecBound
            /\ ObserveEvent(IF items[k].inflight[i].cancelled THEN "discard" ELSE name)
    \/ \E k \in HostKeys : \E tm \in items[k].timers :
            TimerFires(k, tm) /\ SpecBound /\ ObserveEvent("TimerFires")
    \/ AdvanceClock(AlertInterval) /\ SpecBound /\ ObserveEvent("AdvanceClock")
    \/ \E k \in HostKeys :
            handleToggleHostPause(k) /\ SpecBound
                /\ ObserveEvent("handleToggleHostPause")

SpecProbe == InitProbe /\ [][NextProbe]_vars

\* The typed status of an outcome: its kind, whether it is an error, and
\* its round-trip time.
StatusKind(o) ==
    IF o.rejected THEN "ipc"
    ELSE IF o.error # <<>>
    THEN (IF \E i \in 1..Len(o.error) : o.error[i] = "permission" THEN "permission"
          ELSE "error")
    ELSE IF ~o.alive THEN "no-response"
    ELSE "none"

\* The step delivers outcome o to the current poll effect of host k.
Delivers(k, name) == lastEvent' = name /\ Settles(k)

\* C22: the outcome of a probe becomes exactly the typed status of its
\* kind (permission, error, no-response, ipc, or no error with the numeric
\* round-trip time), the poll timer stays, and the next tick issues a probe
\* whatever the status is.
C22_EveryOutcomeBecomesOneTypedStatus ==
    [][\A k \in HostKeys :
         /\ \A name \in DOMAIN ProbeOutcomes : Delivers(k, name) =>
              LET o == ProbeOutcomes[name]
              IN  /\ items'[k].pingData.errorKind = StatusKind(o)
                  /\ items'[k].pingData.hasError = (StatusKind(o) # "none")
                  /\ items'[k].pingData.timeMs =
                        (IF StatusKind(o) = "none" THEN o.time ELSE Null)
                  /\ items'[k].timers = items[k].timers /\ items[k].timers # {}
         /\ lastEvent' = "TimerFires" /\ items[k].timers # {} => Issues(k)]_vars

\* A tick has issued a probe while the communication error is shown.
C22_Witness ==
    /\ lastEvent = "TimerFires"
    /\ \E k \in HostKeys : /\ items[k].pingData.errorKind = "ipc"
                           /\ items[k].inflight # <<>>
                           /\ now > StartTime

\* ------------------------------------------- Spec: the alerts of two hosts
\* Two hosts polled every 20 s with performance optimization on; a probe
\* fails or is answered in time.
PairOutcomes == {OtherError, Alive(30 * TenthsPerMs)}

InitPair ==
    /\ InitWith(AlertInterval, TRUE, FALSE, <<GoogleDns, CloudflareDns>>)
    /\ capIn = pingIntervalMs

NextPair ==
    \/ \E k \in HostKeys, i \in 1..MaxInFlight, o \in PairOutcomes :
            ResultArrives(k, i, o) /\ SpecBound /\ ObserveEvent("ResultArrives")
    \/ \E k \in HostKeys : \E tm \in items[k].timers :
            TimerFires(k, tm) /\ SpecBound /\ ObserveEvent("TimerFires")
    \/ Settled /\ AdvanceClock(AlertInterval) /\ SpecBound
            /\ ObserveEvent("AdvanceClock")
    \/ ToggleEditMode /\ SpecBound /\ ObserveEvent("ToggleEditMode")

SpecPair == InitPair /\ [][NextPair]_vars

\* The status is one the alert rules fire on.
Alertable(pd) ==
    \/ pd.hasError /\ pd.errorKind \notin {"none", "permission", "paused"}
    \/ pd.timeMs # Null /\ pd.timeMs > pingAlertThresholdMs * TenthsPerMs

\* Host k is inside the cooldown of its last alert at time t.
CoolingDown(k, t) == t - items[k].lastAlertRef < cooldownMs

\* C23: an alert of one host leaves the cooldown of every other host as it
\* was, and a host whose status becomes alertable outside its own cooldown
\* emits its alert even while another host is inside its cooldown.
C23_CooldownIsPerHost ==
    [][\A a \in HostKeys : \A b \in HostKeys \ {a} :
         /\ items'[a].emitted # <<>> /\ items'[b].emitted = <<>> =>
                items'[b].lastAlertRef = items[b].lastAlertRef
         /\ (/\ lastEvent' = "ResultArrives" /\ Settles(b)
             /\ items'[b].pingData # items[b].pingData
             /\ Alertable(items'[b].pingData)
             /\ ~isEditMode /\ ~CoolingDown(b, now)
             /\ CoolingDown(a, now)) =>
                /\ items'[b].emitted # <<>>
                /\ items'[b].lastAlertRef = now']_vars

\* Two hosts have alerted within one cooldown window.
C23_Witness ==
    \E a \in HostKeys : \E b \in HostKeys \ {a} :
        /\ items[a].lastAlertRef >= StartTime /\ items[b].lastAlertRef >= StartTime
        /\ items[b].lastAlertRef - items[a].lastAlertRef \in 0..(cooldownMs - 1)
        /\ items[b].emitted # <<>>
        /\ Len(logEntries) = 2
        /\ logEntries[1].host # logEntries[2].host

\* ------------------------------------------------ Spec: the play button
\* The speed page. Its play button calls handleStopSpeed while speedLoading
\* is true and handleStartSpeed otherwise; both are observed as a press of
\* the button.
InitPlay ==
    /\ InitWith(Null, FALSE, FALSE, <<GoogleDns>>)
    /\ capIn = pingIntervalMs

NextPlay ==
    \/ \E page \in SpeedPages :
            setCurrentPage(page) /\ SpeedBound /\ ObserveEvent("setCurrentPage")
    \/ handleStartSpeed /\ SpeedBound /\ ObserveEvent("playButton")
    \/ handleStopSpeed /\ SpeedBound /\ ObserveEvent("playButton")
    \/ \E tm \in speed.timers :
            SpeedPhaseTimeout(tm) /\ SpeedBound /\ ObserveEvent("SpeedPhaseTimeout")
    \/ \E run \in speed.inflight, o \in SpeedOutcomes :
            SpeedResponse(run, o) /\ SpeedBound /\ ObserveEvent("SpeedResponse")
    \/ AdvanceClock(SPEED_PHASE_DOWNLOAD_DELAY_MS) /\ SpeedBound
            /\ ObserveEvent("AdvanceClock")

SpecPlay == InitPlay /\ [][NextPlay]_vars

\* The play button is pressed while a speed test is loading.
PressedWhileLoading == lastEvent' = "playButton" /\ speed.loading

RoundsTyped == {Rounds(1), Rounds(1) + 1, Rounds(2)}
RoundResponses ==
    [quick |-> DnsOutcome(FALSE, "", <<DnsResult("8.8.8.8", TRUE, 10)>>),
     slow  |-> DnsOutcome(FALSE, "", <<DnsResult("8.8.8.8", TRUE, 30)>>)]

InitRounds ==
    /\ InitWith(Null, FALSE, FALSE, <<GoogleDns>>)
    /\ capIn = pingIntervalMs

NextRounds ==
    \/ \E page \in DnsPages :
            setCurrentPage(page) /\ BenchBound /\ ObserveEvent("setCurrentPage")
    \/ setDnsDomain(PlainDomain) /\ BenchBound /\ ObserveEvent("setDnsDomain")
    \/ \E value \in {Rounds(1) - 1} \cup RoundsTyped :
            handleBenchmarkRoundsChange(value) /\ BenchBound
                /\ ObserveEvent("handleBenchmarkRoundsChange")
    \/ /\ dns.dnsBenchmarkRounds \in RoundsTyped
       /\ Len(logEntries) < MaxLogLen - 1
       /\ handleDnsBenchmark /\ BenchBound /\ ObserveEvent("handleDnsBenchmark")
    \/ \E name \in DOMAIN RoundResponses :
            DnsResponse(1, RoundResponses[name]) /\ BenchBound /\ ObserveEvent(name)

SpecRounds == InitRounds /\ [][NextRounds]_vars

\* The step delivers the round called name and with it the benchmark ends.
LastRound(name) ==
    /\ lastEvent' = name
    /\ dns.ops # <<>>
    /\ dns.ops[1].kind = "benchmark"
    /\ dns'.ops = <<>>

\* C25: a benchmark set to N rounds, none of which fails, has at most one
\* check outstanding at any time, ends with the check that makes N checks
\* in all, with 1 <= N <= 10, and then displays the results of that last
\* round.
C25_BenchmarkRunsExactlyNRounds ==
    /\ [](Len(dns.ops) <= 1)
    /\ [][\A name \in DOMAIN RoundResponses :
            LastRound(name) =>
                /\ Rounds(dns.ops[1].i + 1) = dns.dnsBenchmarkRounds
                /\ Rounds(MinRounds) <= dns.dnsBenchmarkRounds
                /\ dns.dnsBenchmarkRounds <= Rounds(MaxRounds)
                /\ dns'.dnsResults = RoundResponses[name].results]_vars

\* The same for the whole numbers of rounds only, which holds.
C25_WholeRounds ==
    /\ [](Len(dns.ops) <= 1)
    /\ [][\A name \in DOMAIN RoundResponses :
            LastRound(name) /\ dns.dnsBenchmarkRounds \in {Rounds(1), Rounds(2)} =>
                /\ Rounds(dns.ops[1].i + 1) = dns.dnsBenchmarkRounds
                /\ dns'.dnsResults = RoundResponses[name].results]_vars

\* ------------------------------------- SpecRate: the success rate, C26
\* The user moves between the DNS page and the log, types a domain, sets
\* one or two rounds and runs benchmarks; the answer of a round lists both servers, one of them
\* failing, or only the first, or has no results at all
\* (response.results || []).
RateResponses ==
    [both  |-> DnsOutcome(FALSE, "", <<DnsResult("8.8.8.8", TRUE, 10),
                                      DnsResult("1.1.1.1", FALSE, Null)>>),
     first |-> DnsOutcome(FALSE, "", <<DnsResult("8.8.8.8", TRUE, 10)>>),
     none  |-> DnsOutcome(FALSE, "", <<>>)]

NextRate ==
    \/ \E page \in DnsPages :
            setCurrentPage(page) /\ BenchBound /\ ObserveEvent("setCurrentPage")
    \/ setDnsDomain(PlainDomain) /\ BenchBound /\ ObserveEvent("setDnsDomain")
    \/ \E value \in RoundInputs :
            handleBenchmarkRoundsChange(value) /\ BenchBound
                /\ ObserveEvent("handleBenchmarkRoundsChange")
    \/ /\ dns.dnsBenchmarkRounds \in RoundInputs
       /\ Len(logEntries) < MaxLogLen - 1
       /\ handleDnsBenchmark /\ BenchBound /\ ObserveEvent("handleDnsBenchmark")
    \/ \E name \in DOMAIN RateResponses :
            DnsResponse(1, RateResponses[name]) /\ BenchBound /\ ObserveEvent(name)

SpecRate == InitBench /\ [][NextRate]_vars

\* round(100 * count / n)
RateOf(count, n) == (2 * Percent * count + n) \div (2 * n)

\* The rounds of the benchmark that the round called name ends.
RoundsRun(name) == Append(dns.ops[1].responses, RateResponses[name].results)

\* C26: when a benchmark completes, the published success rate of every
\* server is round(100 * successes / N), N being the number of rounds run,
\* and lies between 0 and 100, also for a server that some rounds do not
\* list.
C26_SuccessRateOverAllRounds ==
    [][\A name \in DOMAIN RateResponses :
        LastRound(name) =>
            \A i \in 1..Len(dns'.dnsBenchmarkStats) :
                LET stat == dns'.dnsBenchmarkStats[i]
                IN  /\ stat.successRate =
                            RateOf(Successes(RoundsRun(name), stat.server),
                                   Len(RoundsRun(name)))
                    /\ stat.successRate \in 0..Percent]_vars

\* The same for the servers that every round lists, which holds.
C26_ServersInEveryRound ==
    [][\A name \in DOMAIN RateResponses :
        LastRound(name) =>
            \A i \in 1..Len(dns'.dnsBenchmarkStats) :
                LET stat == dns'.dnsBenchmarkStats[i]
                    all == RoundsRun(name)
                IN  /\ (\A r \in 1..Len(all) :
                            \E j \in 1..Len(all[r]) : all[r][j].server = stat.server)
                        => stat.successRate =
                                RateOf(Successes(all, stat.server), Len(all))
                    /\ stat.successRate \in 0..Percent]_vars

\* ------------------------------------------ SpecDelete: deleting hosts, C27
\* The two default hosts; the add form saves a host called Router or a host
\* with the label and the address of the default Google DNS; hosts are
\* pinned, paused and deleted, and the probes of the cards settle. A
\* deletion is observed under the name of its target.
AddedHosts == {Router, GoogleDns}
Targets ==
    [deleteAdded      |-> getHostKey(Router),
     deleteGoogle     |-> getHostKey(GoogleDns),
     deleteCloudflare |-> getHostKey(CloudflareDns)]

NextDelete ==
    \/ \E h \in AddedHosts :
            handleSaveHost(h.label, h.host) /\ HostsBound /\ ObserveEvent("other")
    \/ \E name \in DOMAIN Targets :
            handleDeleteHost(Targets[name]) /\ HostsBound /\ ObserveEvent(name)
    \/ \E k \in HostKeys :
            handleToggleHostPin(k) /\ HostsBound /\ ObserveEvent("other")
    \/ \E k \in HostKeys :
            handleToggleHostPause(k) /\ HostsBound /\ ObserveEvent("other")
    \/ ToggleEditMode /\ HostsBound /\ ObserveEvent("other")
    \/ \E k \in HostKeys, i \in 1..MaxInFlight :
            ResultArrives(k, i, Alive(TenthsPerMs)) /\ HostsBound
                /\ ObserveEvent("other")

SpecDelete == InitHosts /\ [][NextDelete]_vars

\* The list hs with the host of key k taken out.
Without(hs, k) == KeepAt(hs, {i \in 1..Len(hs) : getHostKey(hs[i]) # k}, 1)

\* The host the add form saved has the label and the address of a default
\* host of the list.
HasTwin(hs) ==
    \E i \in 1..Len(hs), j \in 1..Len(hs) :
        /\ hs[i].type = "custom" /\ hs[j].type = "default"
        /\ hs[i].label = hs[j].label /\ hs[i].host = hs[j].host

\* C27: deleting a host takes exactly that host out of the list: every
\* other host, also one of the other origin with the same label and
\* address, stays, in the same order and with the same pinned and paused
\* flags, and the stored list is the resulting list.
C27_DeleteRemovesExactlyTheTarget ==
    [][\A name \in DOMAIN Targets :
        lastEvent' = name =>
            /\ allHosts' = Without(allHosts, Targets[name])
            /\ localStorage'.allHosts = allHosts']_vars

\* The same for the lists in which no added host has the label and the
\* address of a default host, which holds.
C27_WithoutTwin ==
    [][\A name \in DOMAIN Targets :
        lastEvent' = name /\ ~HasTwin(allHosts) =>
            /\ allHosts' = Without(allHosts, Targets[name])
            /\ localStorage'.allHosts = allHosts']_vars

\* ---------------------------------------- SpecTimers: the poll timers, C28
\* One host. The host is paused and resumed, edit mode is turned on and
\* off, the interval is changed on the settings page, the timer ticks,
\* results arrive and the clock moves in steps of the shorter interval.
TimerIntervals == {DefaultPingIntervalMs, 2 * DefaultPingIntervalMs}

\* Notes when the latest probe of each host was issued.
ObserveIssue(ev) ==
    /\ lastEvent' = ev
    /\ observed' =
         [k \in HostKeys |->
            [observed[k] EXCEPT !.last = IF Issues(k) THEN now' ELSE @]]

InitTimers ==
    /\ InitWith(DefaultPingIntervalMs, TRUE, FALSE, <<GoogleDns>>)
    /\ capIn = pingIntervalMs

TimersBound == Bounded(0, 0, MaxClockSteps * DefaultPingIntervalMs)

NextTimers ==
    \/ \E k \in HostKeys, i \in 1..MaxInFlight :
            ResultArrives(k, i, Alive(30 * TenthsPerMs)) /\ TimersBound
                /\ ObserveIssue("result")
    \/ \E k \in HostKeys : \E tm \in items[k].timers :
            TimerFires(k, tm) /\ TimersBound /\ ObserveIssue("tick")
    \/ AdvanceClock(DefaultPingIntervalMs) /\ TimersBound /\ ObserveIssue("clock")
    \/ \E k \in HostKeys :
            handleToggleHostPause(k) /\ TimersBound /\ ObserveIssue("pause")
    \/ ToggleEditMode /\ TimersBound /\ ObserveIssue("edit")
    \/ \E page \in IntervalPages :
            setCurrentPage(page) /\ TimersBound /\ ObserveIssue("navigate")
    \/ \E value \in TimerIntervals :
            /\ currentPage = "settings"
            /\ handlePingIntervalChange(value)
            /\ TimersBound /\ ObserveIssue("interval")

SpecTimers == InitTimers /\ [][NextTimers]_vars

\* A host has at most one live timer, and none while its poll is stopped.
OneTimerAtMost ==
    \A k \in HostKeys :
        /\ Cardinality(items[k].timers) <= 1
        /\ (~InList(allHosts, k) \/ Stopped(k)) => items[k].timers = {}

\* A step other than a tick that changes the timers of host k leaves none
\* of the timers it had, and a timer it creates is due one interval later.
ClearsBeforeCreating(k) ==
    (lastEvent' # "tick" /\ items'[k].timers # items[k].timers) =>
        /\ items'[k].timers \cap items[k].timers = {}
        /\ \A tm \in items'[k].timers :
                tm.deadline = now' + pingIntervalMs' /\ tm.interval = pingIntervalMs'

\* C28 as stated: at most one live timer per host, none for a paused host or
\* in edit mode; a change clears the timer before it creates one; and a
\* probe of a host is issued no sooner than one interval after the probe
\* issued before it.
C28_OneProbePerInterval ==
    /\ [](OneTimerAtMost)
    /\ [][\A k \in HostKeys :
            /\ ClearsBeforeCreating(k)
            /\ (Issues(k) /\ observed[k].last # Null) =>
                    now' >= observed[k].last + pingIntervalMs']_vars

\* C28: at most one live timer per host, none for a paused host or in edit
\* mode; a change clears the timer before it creates one; a probe the timer
\* issues comes no sooner than one interval after the probe issued before
\* it, and any other probe is the one probe a poll issues when it starts
\* after having been stopped.
C28_OneTimerPerHost ==
    /\ [](OneTimerAtMost)
    /\ [][\A k \in HostKeys :
            /\ ClearsBeforeCreating(k)
            /\ Issues(k) =>
                  \/ /\ lastEvent' = "tick"
                     /\ now' >= observed[k].last + pingIntervalMs'
                  \/ /\ lastEvent' # "tick"
                     /\ Stopped(k) /\ ~Stopped(k)'
                     /\ Cardinality(items'[k].timers) = 1]_vars

\* After the interval was changed the host has just been resumed: the
\* probe the resume issued is in flight next to an earlier one, and the host
\* has one timer, of the new interval.
C28_Witness ==
    \E k \in HostKeys :
        /\ lastEvent = "pause"
        /\ ~Stopped(k)
        /\ pingIntervalMs = 2 * DefaultPingIntervalMs
        /\ observed[k].last = now
        /\ Len(items[k].inflight) = MaxInFlight
        /\ Cardinality(items[k].timers) = 1
        /\ \A tm \in items[k].timers : tm.interval = pingIntervalMs

\* ------------------------------------ SpecOrder: overlapping probes, C29
\* Two hosts, history kept, polled without interruption. A probe may take
\* longer than the interval, so that up to MaxInFlight probes of a host are
\* in flight, and their results arrive in any order. Every probe finds the
\* host alive and reports as its time the number of the probe, counted in
\* the order of issue (the host, not the program, reads the observer).
InitOrder ==
    /\ InitWith(DefaultPingIntervalMs, FALSE, FALSE, <<GoogleDns, CloudflareDns>>)
    /\ capIn = pingIntervalMs

OrderBound == Bounded(0, MaxSamples, MaxClockSteps * DefaultPingIntervalMs)

\* Numbers the probes of each host in the order of issue; the result of
\* probe i0 of host k0 arrives in the step (i0 = 0: none does).
ObserveOrder(ev, k0, i0) ==
    /\ lastEvent' = ev
    /\ observed' =
         [k \in HostKeys |->
            [observed[k] EXCEPT
               !.issued = IF Issues(k) THEN @ + 1 ELSE @,
               !.numbers = IF Issues(k) THEN Append(@, observed[k].issued + 1)
                           ELSE IF k = k0 /\ i0 # 0 THEN RemoveAt(@, i0)
                           ELSE @]]

NextOrder ==
    \/ \E k \in HostKeys, i \in 1..MaxInFlight :
            /\ i <= Len(items[k].inflight)
            /\ ResultArrives(k, i, Alive(observed[k].numbers[i] * TenthsPerMs))
            /\ OrderBound /\ ObserveOrder("result", k, i)
    \/ \E k \in HostKeys : \E tm \in items[k].timers :
            TimerFires(k, tm) /\ OrderBound /\ ObserveOrder("tick", k, 0)
    \/ AdvanceClock(DefaultPingIntervalMs) /\ OrderBound
            /\ ObserveOrder("clock", CHOOSE k \in HostKeys : TRUE, 0)

SpecOrder == InitOrder /\ [][NextOrder]_vars

\* C29: the samples of the history of a host are in the order in which
\* their probes were issued, and the status shown is that of the latest
\* issued probe among those whose result has arrived, also when several
\* probes of the host are in flight at once.
C29_HistoryInIssueOrder ==
    \A k \in HostKeys :
        LET hist == items[k].history
        IN  /\ \A i \in 1..Len(hist), j \in 1..Len(hist) :
                    i < j => hist[i] < hist[j]
            /\ \A i \in 1..Len(hist) : hist[i] <= items[k].pingData.timeMs

\* ------------------------------------- SpecLoad: the stored host list, C30
\* The program starts with no stored host list, with a stored text that
\* does not parse, or with a stored list of one host; then a host is added,
\* hosts are deleted, dragged, pinned, unpinned, paused and resumed, and the
\* probes of the cards settle.
StoredAtStart == {NotStored, Unparseable, <<CloudflareDns>>}

InitLoad ==
    /\ \E stored \in StoredAtStart :
            InitLoaded(Null, TRUE, FALSE, loadHosts(stored), <<>>)
    /\ capIn = pingIntervalMs

NextLoad ==
    \/ handleSaveHost(Router.label, Router.host) /\ HostsBound
            /\ ObserveEvent("resize")
    \/ \E k \in HostKeys :
            handleDeleteHost(k) /\ HostsBound /\ ObserveEvent("resize")
    \/ \E k \in HostKeys :
            handleToggleHostPin(k) /\ HostsBound /\ ObserveEvent("keep")
    \/ \E k \in HostKeys :
            handleToggleHostPause(k) /\ HostsBound /\ ObserveEvent("keep")
    \/ \E activeId \in HostKeys, overId \in HostKeys :
            handleDragEnd(activeId, overId) /\ HostsBound /\ ObserveEvent("keep")
    \/ ToggleEditMode /\ HostsBound /\ ObserveEvent("other")
    \/ \E k \in HostKeys, i \in 1..MaxInFlight :
            ResultArrives(k, i, Alive(TenthsPerMs)) /\ HostsBound
                /\ ObserveEvent("other")

SpecLoad == InitLoad /\ [][NextLoad]_vars

\* The hosts of list hs, by identity.
KeySet(hs) == {getHostKey(hs[i]) : i \in 1..Len(hs)}

\* A pin, a pause or a drag leaves the list with the hosts it had.
KeepsTheHosts ==
    lastEvent' = "keep" =>
        /\ Len(allHosts') = Len(allHosts)
        /\ KeySet(allHosts') = KeySet(allHosts)

\* C30: after start-up, whatever was stored, and after every operation on
\* the host list, the stored host list is the list in memory; pinning,
\* pausing and dragging neither add, remove nor duplicate a host.
C30_StoredListEqualsMemory ==
    /\ [](localStorage.allHosts = allHosts)
    /\ [][KeepsTheHosts]_vars

\* The same from the first write of the list on, which holds.
C30_AfterTheFirstWrite ==
    /\ [](localStorage.allHosts # Unparseable => localStorage.allHosts = allHosts)
    /\ [][KeepsTheHosts]_vars
====
